---------------------------- MODULE Spec2Model ----------------------------
(***************************************************************************)
(* The clone orchestrator of the website cloner (src/App.tsx, the          *)
(* streaming variant): the React state of the App component, the four      *)
(* effects that drive it, the asynchronous jobs they start (one page job   *)
(* per processQueue call, the quality review, the auto-fix) and the user   *)
(* and preview events.                                                     *)
(*                                                                         *)
(* React is modelled as it schedules the component: a task's state         *)
(* updates are applied in order (functional updaters read the latest       *)
(* state), the commit that follows the task takes the snapshot every       *)
(* closure of that render reads, and the effects whose dependencies        *)
(* changed run right after the commit, in declaration order, before any    *)
(* other task.  The records of one stream chunk are handled in one task.   *)
(***************************************************************************)
EXTENDS Naturals, Sequences, FiniteSets, Bags, TLC

VARIABLES
    cloningState,           \* App.tsx:85
    agentLogs,              \* App.tsx:86 (the last logWindow entries)
    fileSystem,             \* App.tsx:87
    mainHtmlContent,        \* App.tsx:89
    isScreenshotModalOpen,  \* App.tsx:90
    urlToClone,             \* App.tsx:91
    authUrl,                \* App.tsx:92
    cloningQueue,           \* App.tsx:93
    visitedUrls,            \* App.tsx:94
    consoleErrors,          \* App.tsx:95
    fixAttempts,            \* App.tsx:96
    rendered,               \* the state snapshot of the last commit (what closures read)
    fresh,                  \* state objects replaced since the last commit (new identity)
    pendingEffects,         \* effects of the last commit still to run
    tasks,                  \* asynchronous calls in flight
    logWindow,              \* how many entries of the log a run keeps (fixed by Init)
    session,                \* number of clone initiations so far
    pageFetches,            \* history: page fetches started per URL in this session
    qcCalls,                \* history: review model calls in this session
    fixCalls,               \* history: auto-fix model calls in this session
    posted,                 \* history: console messages posted in this session
    scenario,               \* history: the state sequence of an undisturbed first session
    inserted,               \* the insertions made into a tree built on its own (InsertFile)
    reader                  \* the stream loop run on its own: buffer, stopProcessing, history

vars == << cloningState, agentLogs, fileSystem, mainHtmlContent, isScreenshotModalOpen,
           urlToClone, authUrl, cloningQueue, visitedUrls, consoleErrors, fixAttempts,
           rendered, fresh, pendingEffects, tasks, logWindow, session, pageFetches,
           qcCalls,
           fixCalls, posted, scenario, inserted, reader >>

reactState == << cloningState, agentLogs, fileSystem, mainHtmlContent,
                 isScreenshotModalOpen, urlToClone, authUrl, cloningQueue, visitedUrls,
                 consoleErrors, fixAttempts >>

\* What no step of the orchestrator changes
frozen == << logWindow, inserted, reader >>

history == << frozen, session, pageFetches, qcCalls, fixCalls, posted, scenario >>

-----------------------------------------------------------------------------
(* Bounds of the model *)

MaxSessions == 1     \* clone initiations explored
MaxRecords == 2      \* action records read from one model stream
MaxMessages == 2     \* console messages the preview posts in one session
MaxCounted == 2      \* review calls of one session that are counted
CrawlSessions == 1   \* clone initiations explored with the crawl
ChainSessions == 1   \* clone initiations explored with the chain
FixSessions == 2     \* clone initiations explored with the fix loop
FixMessages == 4     \* console messages per session explored with the fix loop
LogKeep == 2         \* entries of the log the model keeps (the most recent ones)
MaxInserts == 3      \* insertions into a tree built on its own

(* Program constants *)

MAX_FIX_ATTEMPTS == 3
MAX_PAGES == 5

-----------------------------------------------------------------------------
(* CloningState, App.tsx:589-597 *)

IDLE == "IDLE"
CLONING == "CLONING"
AWAITING_USER_INPUT == "AWAITING_USER_INPUT"
QUALITY_CHECK == "QUALITY_CHECK"
FIXING == "FIXING"
COMPLETED == "COMPLETED"
ERROR == "ERROR"

CloningState ==
    {IDLE, CLONING, AWAITING_USER_INPUT, QUALITY_CHECK, FIXING, COMPLETED, ERROR}

NULL == "null"

-----------------------------------------------------------------------------
(* The inputs the environment draws from *)

Urls == {"https://a/1", "https://a/2", "https://a/3", "https://a/4", "https://a/5",
         "https://a/6"}

\* What the user types in the header: the text as a sequence of pieces (blanks,
\* a scheme, the rest), so that trimming and the scheme test act on it.
RawUrls == { <<"a/1">>, <<" ", "https://", "a/2", " ">> }

\* The url of a streamed nextPage record: an absolute URL, the empty reference
\* (which resolves to the page itself) or text that is no URL.
SELF_REF == ""
BAD_URL == "http://"
NextPageRefs == Urls \cup {SELF_REF, BAD_URL}

\* The path of a file record as path.split('/') cuts it.
Paths == { <<"index.html">>, <<"app.js">> }
Contents == {"v1", "v2"}
HtmlNames == {"index.html"}

\* The non-success statuses a page fetch answers with (response.status as text)
HttpFailures == {"404", "500"}

\* Messages the preview posts; "E" is a substring of "E at x".
ErrorMessages == {"E", "E at x"}

\* no entry taken to contain a message
Includes_Never(e, m) == FALSE

\* e.includes(m), App.tsx:519
Includes(e, m) == e = m \/ (e = "E at x" /\ m = "E")

-----------------------------------------------------------------------------
(* The virtual file tree, App.tsx:599-613 and 54-81 *)

EmptyFS == [n \in {} |-> NULL]
FileNode(content) == [type |-> "file", content |-> content]
FolderNode(children) == [type |-> "folder", children |-> children]

SetEntry(fs, name, node) ==
    [n \in DOMAIN fs \cup {name} |-> IF n = name THEN node ELSE fs[n]]

\* path.split('/').filter(p => p)
PathParts(path) == SelectSeq(path, LAMBDA p : p # "")

RECURSIVE InsertAt(_, _, _)
InsertAt(fs, parts, content) ==
    IF Len(parts) = 0
    THEN SetEntry(fs, "undefined", FileNode(content))
    ELSE IF Len(parts) = 1
    THEN SetEntry(fs, parts[1], FileNode(content))
    ELSE LET part == parts[1]
             sub == IF part \in DOMAIN fs /\ fs[part].type = "folder"
                    THEN fs[part].children
                    ELSE EmptyFS
         IN  SetEntry(fs, part, FolderNode(InsertAt(sub, Tail(parts), content)))

\* the file inserted with the empty segments of its path kept
addFileToSystem_Unfiltered(fs, path, content) == InsertAt(fs, path, content)

\* App.tsx:70-81
addFileToSystem(fs, path, content) == InsertAt(fs, PathParts(path), content)

\* parts.join('/'): the text of a path
RECURSIVE JoinPath(_)
JoinPath(parts) ==
    IF parts = <<>> THEN ""
    ELSE IF Len(parts) = 1 THEN parts[1]
    ELSE parts[1] \o "/" \o JoinPath(Tail(parts))

\* the code fence of App.tsx:60 (three backquotes, written as quotes here)
FENCE == "'''"

\* App.tsx:60
FileEntry(currentPath, content) ==
    "--- File: " \o currentPath \o " ---\n" \o FENCE \o "\n" \o content \o "\n" \o FENCE

\* traverse with the folders of the path left out of an entry
RECURSIVE Traverse_NameOnly(_, _)
Traverse_NameOnly(node, path) ==
    IF DOMAIN node = {} THEN <<>>
    ELSE LET name == CHOOSE n \in DOMAIN node : TRUE
             childNode == node[name]
             others == [n \in DOMAIN node \ {name} |-> node[n]]
         IN  (IF childNode.type = "file"
              THEN <<FileEntry(name, childNode.content)>>
              ELSE Traverse_NameOnly(childNode.children, name))
             \o Traverse_NameOnly(others, path)

\* App.tsx:56-65: traverse; the names of a folder are taken one after the other
\* (the order Object.entries gives them in is left open)
RECURSIVE Traverse(_, _)
Traverse(node, path) ==
    IF DOMAIN node = {} THEN <<>>
    ELSE LET name == CHOOSE n \in DOMAIN node : TRUE
             childNode == node[name]
             currentPath == IF path # "" THEN path \o "/" \o name ELSE name
             others == [n \in DOMAIN node \ {name} |-> node[n]]
         IN  (IF childNode.type = "file"
              THEN <<FileEntry(currentPath, childNode.content)>>
              ELSE Traverse(childNode.children, currentPath))
             \o Traverse(others, path)

\* App.tsx:54-68
getFileSystemAsText(fs) == Traverse(fs, "")

\* The node a path leads to through the folders of a tree, or NoNode
NoNode == [type |-> "none"]

RECURSIVE NodeAt(_, _)
NodeAt(fs, parts) ==
    IF parts = <<>> \/ parts[1] \notin DOMAIN fs THEN NoNode
    ELSE IF Len(parts) = 1 THEN fs[parts[1]]
    ELSE IF fs[parts[1]].type = "folder" THEN NodeAt(fs[parts[1]].children, Tail(parts))
    ELSE NoNode

\* file.path.endsWith('.html')
EndsWithHtml(path) == Len(path) > 0 /\ path[Len(path)] \in HtmlNames

-----------------------------------------------------------------------------
(* URLs *)

RECURSIVE Concat(_)
Concat(pieces) == IF pieces = <<>> THEN "" ELSE Head(pieces) \o Concat(Tail(pieces))

RECURSIVE TrimStart(_)
TrimStart(pieces) ==
    IF pieces # <<>> /\ Head(pieces) = " " THEN TrimStart(Tail(pieces)) ELSE pieces

RECURSIVE TrimEnd(_)
TrimEnd(pieces) ==
    IF pieces # <<>> /\ pieces[Len(pieces)] = " "
    THEN TrimEnd(SubSeq(pieces, 1, Len(pieces) - 1))
    ELSE pieces

\* rawUrl.trim()
Trim(pieces) == TrimEnd(TrimStart(pieces))

\* /^(https?:\/\/)/i.test(url)
HasScheme(pieces) ==
    pieces # <<>> /\ Head(pieces) \in {"http://", "https://", "HTTP://", "HTTPS://"}

\* the scheme prefixed whatever the text starts with
NormalizeUrl_AlwaysPrefixed(rawUrl) == "https://" \o Concat(Trim(rawUrl))

\* App.tsx:107-110
NormalizeUrl(rawUrl) ==
    LET url == Trim(rawUrl)
    IN  IF HasScheme(url) THEN Concat(url) ELSE "https://" \o Concat(url)

\* new URL(ref, base).href, App.tsx:481; BAD_URL makes it throw
ResolveUrl(ref, base) == IF ref = SELF_REF THEN base ELSE ref

\* A job of the queue, App.tsx:93; resumed tells the job the user's resumption
\* added (App.tsx:148) from the others
Job(url, screenshot) == [url |-> url, screenshot |-> screenshot, resumed |-> FALSE]

ResumeJob(nextUrl) == [Job(nextUrl, FALSE) EXCEPT !.resumed = TRUE]

-----------------------------------------------------------------------------
(* The agent log, App.tsx:100-102 *)

LogEntry(type, message) == [type |-> type, message |-> message]

KeepLast(log) ==
    IF Len(log) > logWindow THEN SubSeq(log, Len(log) - logWindow + 1, Len(log)) ELSE log

addLog(log, type, message) == KeepLast(Append(log, LogEntry(type, message)))

INIT_MESSAGE == "Initializing Full-Stack Agentic Cloner v6.0 (Streaming)..."

-----------------------------------------------------------------------------
(* React: the snapshot a render's closures read, and the initial state *)

Snapshot ==
    [ cloningState |-> cloningState,
      fileSystem |-> fileSystem,
      mainHtmlContent |-> mainHtmlContent,
      isScreenshotModalOpen |-> isScreenshotModalOpen,
      urlToClone |-> urlToClone,
      cloningQueue |-> cloningQueue,
      visitedUrls |-> visitedUrls,
      consoleErrors |-> consoleErrors,
      fixAttempts |-> fixAttempts ]

NoFetches == [u \in Urls |-> 0]

\* The stream loop before its first chunk, App.tsx:415-416; text is the text of
\* the chunks read so far and cuts the places in it where one chunk ended and
\* the next began (history)
NoReader ==
    [ pc |-> "stream", buffer |-> <<>>, stopProcessing |-> FALSE, handled |-> <<>>,
      text |-> <<>>, cuts |-> {} ]

\* The history of an undisturbed first session: the states it went through and
\* the file records it merged; Disturbed once anything else happened.
Disturbed == [trace |-> <<>>, files |-> 0]
Undisturbed == scenario.trace # <<>>

Trace(newState) ==
    IF ~Undisturbed THEN Disturbed
    ELSE IF newState = scenario.trace[Len(scenario.trace)] THEN scenario
    ELSE [scenario EXCEPT !.trace = Append(@, newState)]

\* the trigger without the ceiling of App.tsx:531
CanAutoFix_NoCeiling(c) ==
    /\ Len(c.consoleErrors) > 0
    /\ c.cloningState = COMPLETED \/ c.cloningState = ERROR

\* the trigger without the test for pending errors
CanAutoFix_NoErrors(c) ==
    /\ c.cloningState = COMPLETED \/ c.cloningState = ERROR
    /\ c.fixAttempts < MAX_FIX_ATTEMPTS

\* App.tsx:529-531
CanAutoFix(c) ==
    /\ Len(c.consoleErrors) > 0
    /\ c.cloningState = COMPLETED \/ c.cloningState = ERROR
    /\ c.fixAttempts < MAX_FIX_ATTEMPTS

\* the effect without its else branch
FixBudgetSpent_Never(c) == FALSE

\* App.tsx:535
FixBudgetSpent(c) ==
    /\ Len(c.consoleErrors) > 0
    /\ c.fixAttempts >= MAX_FIX_ATTEMPTS
    /\ c.cloningState # FIXING

Effects == {"processQueue", "qualityTransition", "qualityCheck", "autoFix"}

\* The effects whose dependency arrays differ between two renders: App.tsx:500,
\* 507, 513 and 539.  replaced holds the arrays and objects that were set anew
\* (handleQualityCheck and handleAutoFix are new functions whenever fileSystem
\* is, App.tsx:242 and 336).
ChangedDeps(old, new, replaced) ==
    LET stateChanged == new.cloningState # old.cloningState
    IN  (IF stateChanged \/ "cloningQueue" \in replaced THEN {"processQueue"} ELSE {})
        \cup
        (IF \/ stateChanged
            \/ Len(new.cloningQueue) # Len(old.cloningQueue)
            \/ Cardinality(new.visitedUrls) # Cardinality(old.visitedUrls)
         THEN {"qualityTransition"} ELSE {})
        \cup
        (IF stateChanged \/ "fileSystem" \in replaced THEN {"qualityCheck"} ELSE {})
        \cup
        (IF \/ stateChanged
            \/ "consoleErrors" \in replaced
            \/ new.fixAttempts # old.fixAttempts
            \/ "fileSystem" \in replaced
         THEN {"autoFix"} ELSE {})

\* The condition under which the body of an effect does anything, read from
\* the render c the effect belongs to: App.tsx:341, 503, 510, 529 and 535
Acts(e, c) ==
    CASE e = "processQueue" -> c.cloningState = CLONING /\ Len(c.cloningQueue) > 0
      [] e = "qualityTransition" -> /\ c.cloningState = CLONING
                                    /\ Len(c.cloningQueue) = 0
                                    /\ Cardinality(c.visitedUrls) > 0
      [] e = "qualityCheck" -> c.cloningState = QUALITY_CHECK
      [] e = "autoFix" -> CanAutoFix(c) \/ FixBudgetSpent(c)

\* React commits the updates of the task that just ran: the new render's
\* closures read the new state, and the effects whose dependencies changed are
\* to run.  (The conjunct comes last in an action: it reads the new state.)
Commit(replaced) ==
    /\ rendered' = Snapshot'
    /\ pendingEffects' = {e \in ChangedDeps(rendered, Snapshot', replaced) :
                              Acts(e, Snapshot')}
    /\ fresh' = {}

\* An effect has run: the next one of the same commit runs, or, after the last
\* one, the updates the effects made are committed.
EffectDone(e, replaced) ==
    IF pendingEffects = {e}
    THEN Commit(fresh \cup replaced)
    ELSE /\ pendingEffects' = pendingEffects \ {e}
         /\ fresh' = fresh \cup replaced
         /\ rendered' = rendered

\* The effect that runs next: the first pending one in declaration order.
EffectOrder == <<"processQueue", "qualityTransition", "qualityCheck", "autoFix">>

NextEffect(e) ==
    /\ e \in pendingEffects
    /\ \A i, j \in 1..Len(EffectOrder) :
           (EffectOrder[j] = e /\ i < j) => EffectOrder[i] \notin pendingEffects

\* A task (a user event, a message, the continuation of an await) runs when
\* React has committed the last update and run its effects.
Idle == pendingEffects = {}

Init ==
    /\ cloningState = IDLE
    /\ agentLogs = <<>>
    /\ fileSystem = EmptyFS
    /\ mainHtmlContent = NULL
    /\ isScreenshotModalOpen = FALSE
    /\ urlToClone = ""
    /\ authUrl = ""
    /\ cloningQueue = <<>>
    /\ visitedUrls = {}
    /\ consoleErrors = <<>>
    /\ fixAttempts = 0
    /\ rendered = Snapshot
    /\ fresh = {}
    /\ pendingEffects = {}
    /\ tasks = EmptyBag
    /\ logWindow = 0
    /\ session = 0
    /\ pageFetches = NoFetches
    /\ qcCalls = 0
    /\ fixCalls = 0
    /\ posted = 0
    /\ scenario = [trace |-> <<IDLE>>, files |-> 0]
    /\ inserted = <<>>
    /\ reader = NoReader

-----------------------------------------------------------------------------
(* User actions *)

\* App.tsx:104-134; openFails: window.open throws
handleInitiateCloning(rawUrl, useScreenshot, openFails) ==
    /\ Idle
    /\ rawUrl # <<>>
    /\ rendered.cloningState \in {IDLE, COMPLETED, ERROR}
    /\ openFails => useScreenshot
    /\ LET url == NormalizeUrl(rawUrl)
           started == addLog(<<>>, "SYSTEM", INIT_MESSAGE)
       IN  /\ cloningState' = IF openFails THEN ERROR ELSE CLONING
           /\ agentLogs' = IF openFails
                           THEN addLog(started, "ERROR", "Could not open new tab")
                           ELSE started
           /\ fileSystem' = EmptyFS
           /\ mainHtmlContent' = NULL
           /\ visitedUrls' = {}
           /\ consoleErrors' = <<>>
           /\ fixAttempts' = 0
           /\ urlToClone' = url
           /\ isScreenshotModalOpen' =
                  IF useScreenshot /\ ~openFails THEN TRUE ELSE isScreenshotModalOpen
           /\ cloningQueue' = IF useScreenshot THEN cloningQueue ELSE <<Job(url, FALSE)>>
           /\ session' = session + 1
           /\ UNCHANGED frozen
           /\ pageFetches' = NoFetches
           /\ qcCalls' = 0
           /\ fixCalls' = 0
           /\ posted' = 0
           /\ scenario' = IF session = 0 /\ ~useScreenshot
                          THEN Trace(cloningState')
                          ELSE Disturbed
    /\ UNCHANGED << authUrl, tasks >>
    /\ Commit({"fileSystem", "consoleErrors"}
              \cup (IF useScreenshot THEN {} ELSE {"cloningQueue"}))

\* App.tsx:136-139
handleScreenshotReady ==
    /\ Idle
    /\ rendered.isScreenshotModalOpen
    /\ isScreenshotModalOpen' = FALSE
    /\ cloningQueue' = <<Job(rendered.urlToClone, TRUE)>>
    /\ UNCHANGED << cloningState, agentLogs, fileSystem, mainHtmlContent, urlToClone,
                    authUrl, visitedUrls, consoleErrors, fixAttempts, tasks, history >>
    /\ Commit({"cloningQueue"})

\* App.tsx:569
ScreenshotCancel ==
    /\ Idle
    /\ rendered.isScreenshotModalOpen
    /\ isScreenshotModalOpen' = FALSE
    /\ UNCHANGED << cloningState, agentLogs, fileSystem, mainHtmlContent, urlToClone,
                    authUrl, cloningQueue, visitedUrls, consoleErrors, fixAttempts,
                    tasks, history >>
    /\ Commit({})

\* App.tsx:141-151; the prompt is on screen while the rendered state awaits input
handleResumeCloning(nextUrl) ==
    /\ Idle
    /\ rendered.cloningState = AWAITING_USER_INPUT
    /\ IF nextUrl = ""
       THEN /\ agentLogs' = addLog(agentLogs, "WARN", "Resuming cancelled")
            /\ cloningState' = ERROR
            /\ UNCHANGED << cloningQueue, authUrl >>
       ELSE /\ agentLogs' = addLog(agentLogs, "SYSTEM", "User provided new URL")
            /\ cloningQueue' = Append(cloningQueue, ResumeJob(nextUrl))
            /\ authUrl' = ""
            /\ cloningState' = CLONING
    /\ scenario' = Disturbed
    /\ UNCHANGED << fileSystem, mainHtmlContent, isScreenshotModalOpen, urlToClone,
                    visitedUrls, consoleErrors, fixAttempts, tasks, frozen, session,
                    pageFetches, qcCalls, fixCalls, posted >>
    /\ Commit(IF nextUrl = "" THEN {} ELSE {"cloningQueue"})

\* App.tsx:576-579
AuthCancel ==
    /\ Idle
    /\ rendered.cloningState = AWAITING_USER_INPUT
    /\ agentLogs' = addLog(agentLogs, "WARN", "User cancelled authentication")
    /\ cloningState' = ERROR
    /\ scenario' = Disturbed
    /\ UNCHANGED << fileSystem, mainHtmlContent, isScreenshotModalOpen, urlToClone,
                    authUrl, cloningQueue, visitedUrls, consoleErrors, fixAttempts,
                    tasks, frozen, session, pageFetches, qcCalls, fixCalls, posted >>
    /\ Commit({})

\* App.tsx:516-522; the preview posts messages once a document is rendered in it
handleMessage(message) ==
    /\ Idle
    /\ rendered.mainHtmlContent # NULL
    /\ LET errorExists == \E i \in 1..Len(consoleErrors) : Includes(consoleErrors[i], message)
       IN  /\ consoleErrors' = IF errorExists THEN consoleErrors
                               ELSE Append(consoleErrors, message)
           /\ posted' = posted + 1
           /\ scenario' = Disturbed
           /\ UNCHANGED << cloningState, agentLogs, fileSystem, mainHtmlContent,
                           isScreenshotModalOpen, urlToClone, authUrl, cloningQueue,
                           visitedUrls, fixAttempts, tasks, frozen, session, pageFetches,
                           qcCalls, fixCalls >>
           /\ Commit(IF errorExists THEN {} ELSE {"consoleErrors"})

-----------------------------------------------------------------------------
(* Asynchronous calls in flight, a bag: two calls may be alike.  A call keeps  *)
(* what its closure captured at the render that started it: visitedUrls,       *)
(* mainHtmlContent and fileSystem are the values of that render, not the       *)
(* current ones; from is the cloningState of that render.                      *)

PageTask(job, c) ==
    [ kind |-> "page", url |-> job.url, screenshot |-> job.screenshot,
      pc |-> "fetch", n |-> 0, from |-> c.cloningState, visitedUrls |-> c.visitedUrls,
      mainHtmlContent |-> c.mainHtmlContent, fileSystem |-> EmptyFS,
      assets |-> {}, errors |-> <<>> ]

CallTask(kind, c, errors) ==
    [ kind |-> kind, url |-> "", screenshot |-> FALSE, pc |-> "model", n |-> 0,
      from |-> c.cloningState, visitedUrls |-> {}, mainHtmlContent |-> NULL, fileSystem |-> c.fileSystem,
      assets |-> {}, errors |-> errors ]

Started(t) == tasks (+) SetToBag({t})
Ended(t) == tasks (-) SetToBag({t})
Replace(t, u) == Ended(t) (+) SetToBag({u})
InFlight(kind) == {t \in BagToSet(tasks) : t.kind = kind}

-----------------------------------------------------------------------------
(* The effects, App.tsx:339-539 *)

\* the queue emptied instead of advanced
Slice1_Clear(queue) == <<>>

\* prev.slice(1)
Slice1(queue) == IF queue = <<>> THEN <<>> ELSE Tail(queue)

CountFetch(url) ==
    IF url \in DOMAIN pageFetches
    THEN [pageFetches EXCEPT ![url] = IF @ < MaxCounted THEN @ + 1 ELSE @]
    ELSE pageFetches

\* processQueue without the test of App.tsx:344
processQueue_Unchecked ==
    LET c == rendered
        job == Head(c.cloningQueue)
    IN  /\ visitedUrls' = visitedUrls \cup {job.url}
        /\ agentLogs' = addLog(addLog(agentLogs, "SYSTEM", "Cloning page"),
                               "INFO", "Fetching source code...")
        /\ tasks' = Started(PageTask(job, c))
        /\ pageFetches' = CountFetch(job.url)
        /\ UNCHANGED cloningQueue

\* App.tsx:340-355: processQueue up to its first await
processQueue ==
    LET c == rendered
        job == Head(c.cloningQueue)
    IN  IF job.url \in c.visitedUrls
        THEN /\ cloningQueue' = Slice1(cloningQueue)
             /\ UNCHANGED << agentLogs, visitedUrls, tasks, pageFetches >>
        ELSE /\ visitedUrls' = visitedUrls \cup {job.url}
             /\ agentLogs' = addLog(addLog(agentLogs, "SYSTEM", "Cloning page"),
                                    "INFO", "Fetching source code...")
             /\ tasks' = Started(PageTask(job, c))
             /\ pageFetches' = CountFetch(job.url)
             /\ UNCHANGED cloningQueue

ProcessQueueEffect ==
    /\ NextEffect("processQueue")
    /\ processQueue
    /\ UNCHANGED << cloningState, fileSystem, mainHtmlContent, isScreenshotModalOpen,
                    urlToClone, authUrl, consoleErrors, fixAttempts, frozen, session,
                    qcCalls, fixCalls, posted, scenario >>
    /\ EffectDone("processQueue",
                  IF Head(rendered.cloningQueue).url \in rendered.visitedUrls
                  THEN {"cloningQueue"} ELSE {})

\* App.tsx:502-507
QualityTransitionEffect ==
    /\ NextEffect("qualityTransition")
    /\ agentLogs' = addLog(agentLogs, "SYSTEM", "Initial cloning phase complete")
    /\ cloningState' = QUALITY_CHECK
    /\ scenario' = Trace(QUALITY_CHECK)
    /\ UNCHANGED << fileSystem, mainHtmlContent, isScreenshotModalOpen, urlToClone,
                    authUrl, cloningQueue, visitedUrls, consoleErrors, fixAttempts,
                    tasks, frozen, session, pageFetches, qcCalls, fixCalls, posted >>
    /\ EffectDone("qualityTransition", {})

\* App.tsx:153-154 and 179-180: handleQualityCheck up to its await
handleQualityCheck ==
    /\ agentLogs' = addLog(agentLogs, "DEBUG", "AI is reviewing code")
    /\ tasks' = Started(CallTask("review", rendered, <<>>))
    /\ qcCalls' = IF qcCalls < MaxCounted THEN qcCalls + 1 ELSE qcCalls

\* App.tsx:509-513
QualityCheckEffect ==
    /\ NextEffect("qualityCheck")
    /\ handleQualityCheck
    /\ UNCHANGED << cloningState, fileSystem, mainHtmlContent, isScreenshotModalOpen,
                    urlToClone, authUrl, cloningQueue, visitedUrls, consoleErrors,
                    fixAttempts, frozen, session, pageFetches, fixCalls, posted, scenario >>
    /\ EffectDone("qualityCheck", {})

\* App.tsx:244-249 and 273-274: handleAutoFix up to its await
handleAutoFix(errors, log) ==
    /\ cloningState' = FIXING
    /\ fixAttempts' = fixAttempts + 1
    /\ consoleErrors' = <<>>
    /\ agentLogs' = addLog(log, "DEBUG", "Analyzing console error(s)...")
    /\ tasks' = Started(CallTask("fix", rendered, errors))
    /\ fixCalls' = fixCalls + 1

\* App.tsx:528-539
AutoFixEffect ==
    /\ NextEffect("autoFix")
    /\ LET c == rendered
       IN  IF CanAutoFix(c)
           THEN handleAutoFix(c.consoleErrors,
                              addLog(agentLogs, "SYSTEM", "Attempting to auto-fix..."))
           ELSE /\ agentLogs' = addLog(agentLogs, "WARN", "Max auto-fix attempts reached")
                /\ cloningState' = ERROR
                /\ UNCHANGED << fixAttempts, consoleErrors, tasks, fixCalls >>
    /\ scenario' = Trace(cloningState')
    /\ UNCHANGED << fileSystem, mainHtmlContent, isScreenshotModalOpen, urlToClone,
                    authUrl, cloningQueue, visitedUrls, frozen, session, pageFetches,
                    qcCalls, posted >>
    /\ EffectDone("autoFix", IF CanAutoFix(rendered) THEN {"consoleErrors"} ELSE {})

-----------------------------------------------------------------------------
(* A page job after its first await, App.tsx:355-457 *)

AssetNames == {"style.css", "app.js"}

\* How the fetch of an asset ends: a success, a non-success status, an exception
AssetOutcomes == {"ok", "404", "error"}

\* every asset kept, whatever its fetch answered
Fetched_All(outcomes) == DOMAIN outcomes

\* App.tsx:367-371: the assets pushed, those whose response is ok
Fetched(outcomes) == {a \in DOMAIN outcomes : outcomes[a] = "ok"}

\* App.tsx:452-457: the catch of processQueue
CloneFailed(t, message) ==
    /\ agentLogs' = addLog(agentLogs, "ERROR", message)
    /\ cloningState' = ERROR
    /\ tasks' = Ended(t)
    /\ scenario' = Disturbed
    /\ UNCHANGED << fileSystem, mainHtmlContent, isScreenshotModalOpen, urlToClone,
                    authUrl, cloningQueue, visitedUrls, consoleErrors, fixAttempts,
                    frozen, session, pageFetches, qcCalls, fixCalls, posted >>
    /\ Commit({})

\* The job goes on: only the log and the job itself change.
CloneStep(t, u, log) ==
    /\ agentLogs' = log
    /\ tasks' = Replace(t, u)
    /\ UNCHANGED << cloningState, fileSystem, mainHtmlContent, isScreenshotModalOpen,
                    urlToClone, authUrl, cloningQueue, visitedUrls, consoleErrors,
                    fixAttempts, history >>
    /\ Commit({})

\* App.tsx:402-413: after the assets, the screenshot is encoded (an await) and
\* the model is called
AfterAssets(t, assets, log) ==
    IF t.screenshot
    THEN CloneStep(t, [t EXCEPT !.pc = "screenshot", !.assets = assets], log)
    ELSE CloneStep(t, [t EXCEPT !.pc = "model", !.assets = assets],
                   addLog(log, "SYSTEM", "Dispatching AI agent. Streaming response..."))

\* the error of a failed page fetch without the status in it
StatusMessage_NoStatus(url, status) ==
    "An error occurred: Failed to fetch URL " \o url \o "."

\* App.tsx:356 and 454-455: the message of the error a non-success status throws,
\* as the catch logs it
StatusMessage(url, status) ==
    "An error occurred: Failed to fetch URL " \o url \o ". Status: " \o status \o "."

\* App.tsx:355-365: the page fetch returns: "ok", a network "error", or the
\* non-success status of the response
FetchDone(t, outcome, found) ==
    /\ Idle
    /\ BagIn(t, tasks) /\ t.kind = "page" /\ t.pc = "fetch"
    /\ outcome # "ok" => found = {}
    /\ IF outcome \in HttpFailures
       THEN CloneFailed(t, StatusMessage(t.url, outcome))
       ELSE IF outcome = "error"
       THEN CloneFailed(t, "An error occurred: Failed to fetch")
       ELSE LET log == addLog(agentLogs, "SUCCESS", "Successfully fetched page source.")
            IN  IF found # {}
                THEN CloneStep(t, [t EXCEPT !.pc = "assets", !.assets = found],
                               addLog(log, "INFO", "Found assets (CSS/JS). Fetching..."))
                ELSE AfterAssets(t, {}, log)

\* App.tsx:366-372: every asset fetch has returned; got are those that succeeded
AssetsDone(t, got) ==
    /\ Idle
    /\ BagIn(t, tasks) /\ t.kind = "page" /\ t.pc = "assets"
    /\ got \subseteq t.assets
    /\ AfterAssets(t, got, agentLogs)

\* App.tsx:403-406: fileToBase64 resolves or rejects
ScreenshotDone(t, ok) ==
    /\ Idle
    /\ BagIn(t, tasks) /\ t.kind = "page" /\ t.pc = "screenshot"
    /\ IF ok
       THEN CloneStep(t, [t EXCEPT !.pc = "model"],
                      addLog(agentLogs, "SYSTEM", "Dispatching AI agent. Streaming response..."))
       ELSE CloneFailed(t, "An unknown error occurred.")

\* App.tsx:413: generateContentStream returns the stream or throws
ModelOpened(t, ok) ==
    /\ Idle
    /\ BagIn(t, tasks) /\ t.kind = "page" /\ t.pc = "model"
    /\ IF ok
       THEN CloneStep(t, [t EXCEPT !.pc = "stream", !.assets = {}], agentLogs)
       ELSE CloneFailed(t, "model call failed")

-----------------------------------------------------------------------------
(* The streamed action records, App.tsx:415-497 *)

Record(action, path, content, url) ==
    [action |-> action, path |-> path, content |-> content, url |-> url]

\* "garbage" is a line that is no JSON; "unknown" a JSON record of no known action
LogOnlyActions == {"thought", "complete", "unknown", "garbage"}

RecordsOf(logOnly, paths, contents, refs) ==
    {Record(a, <<>>, "", "") : a \in logOnly \cup {"authWall"}}
    \cup {Record("file", p, c, "") : p \in paths, c \in contents}
    \cup {Record("nextPage", <<>>, "", r) : r \in refs}

NoRecord == Record("none", <<>>, "", "")

\* The chunks of at most MaxRecords records
ChunksOf(records) == UNION {[1..n -> records] : n \in 1..MaxRecords}

CAPTURE_SCRIPT == "<script/>"

\* The state the handling of a record reads and writes
Working ==
    [ agentLogs |-> agentLogs, fileSystem |-> fileSystem,
      mainHtmlContent |-> mainHtmlContent, authUrl |-> authUrl,
      cloningState |-> cloningState, cloningQueue |-> cloningQueue, fresh |-> {} ]

Logged(S, type, message) == [S EXCEPT !.agentLogs = addLog(@, type, message)]

Queued(queue, url) == \E i \in 1..Len(queue) : queue[i].url = url

\* the queue updater with the new job put in front of the queue
EnqueueNext_Front(t, nextUrl, S) ==
    IF /\ nextUrl \notin t.visitedUrls
       /\ ~Queued(S.cloningQueue, nextUrl)
       /\ Len(S.cloningQueue) + Cardinality(t.visitedUrls) < MAX_PAGES
    THEN [Logged(S, "INFO", "AI queued next page")
             EXCEPT !.cloningQueue = <<Job(nextUrl, FALSE)>> \o @,
                    !.fresh = @ \cup {"cloningQueue"}]
    ELSE S

\* App.tsx:482-488: the queue updater of a nextPage record
EnqueueNext(t, nextUrl, S) ==
    IF /\ nextUrl \notin t.visitedUrls
       /\ ~Queued(S.cloningQueue, nextUrl)
       /\ Len(S.cloningQueue) + Cardinality(t.visitedUrls) < MAX_PAGES
    THEN [Logged(S, "INFO", "AI queued next page")
             EXCEPT !.cloningQueue = Append(@, Job(nextUrl, FALSE)),
                    !.fresh = @ \cup {"cloningQueue"}]
    ELSE S

\* App.tsx:460-497; its result (stop) is TRUE for authWall alone
handleStreamedAction(t, rec, S) ==
    CASE rec.action = "thought" -> Logged(S, "THOUGHT", "thought")
      [] rec.action = "file" ->
            [Logged(S, "INFO", "Creating file")
                EXCEPT !.fileSystem = addFileToSystem(@, rec.path, rec.content),
                       !.fresh = @ \cup {"fileSystem"},
                       !.mainHtmlContent =
                           IF EndsWithHtml(rec.path) /\ t.mainHtmlContent = NULL
                           THEN CAPTURE_SCRIPT \o rec.content
                           ELSE @]
      [] rec.action = "authWall" ->
            [Logged(S, "WARN", "AI Agent: authWall")
                EXCEPT !.authUrl = t.url,
                       !.cloningState = AWAITING_USER_INPUT]
      [] rec.action = "nextPage" ->
            IF rec.url = BAD_URL
            THEN Logged(S, "WARN", "AI returned an invalid next page URL")
            ELSE EnqueueNext(t, ResolveUrl(rec.url, t.url), S)
      [] rec.action = "complete" -> Logged(S, "SUCCESS", "complete")
      [] OTHER -> Logged(S, "WARN", "Unknown AI action")

\* every line handed to handleStreamedAction, parsed or not
HandleLine_NoCatch(t, rec, S) ==
    IF rec.action = "none" THEN S ELSE handleStreamedAction(t, rec, S)

\* App.tsx:426-436 and 439-446: one line of the stream
HandleLine(t, rec, S) ==
    IF rec.action = "none" THEN S
    ELSE IF rec.action = "garbage" THEN Logged(S, "DEBUG", "AI Output (non-JSON)")
    ELSE handleStreamedAction(t, rec, S)

\* App.tsx:418-438: the lines of one chunk, in order; an authWall record stops
\* the loop, and what follows it is not handled
RECURSIVE HandleLines(_, _, _)
HandleLines(t, recs, S) ==
    IF recs = <<>> THEN S
    ELSE IF Head(recs).action = "authWall" THEN HandleLine(t, Head(recs), S)
    ELSE HandleLines(t, Tail(recs), HandleLine(t, Head(recs), S))

Stopped(recs) == \E i \in 1..Len(recs) : recs[i].action = "authWall"

\* What a record means for the history of the undisturbed session
TraceRecord(rec, sc) ==
    IF sc.trace = <<>> \/ rec.action \in {"authWall", "nextPage"} THEN Disturbed
    ELSE IF rec.action = "file"
    THEN (IF sc.files = 0 THEN [sc EXCEPT !.files = 1] ELSE Disturbed)
    ELSE sc

RECURSIVE TraceRecords(_, _)
TraceRecords(recs, sc) ==
    IF recs = <<>> THEN sc ELSE TraceRecords(Tail(recs), TraceRecord(Head(recs), sc))

Written(S) ==
    /\ agentLogs' = S.agentLogs
    /\ fileSystem' = S.fileSystem
    /\ mainHtmlContent' = S.mainHtmlContent
    /\ authUrl' = S.authUrl
    /\ cloningState' = S.cloningState
    /\ cloningQueue' = S.cloningQueue

\* App.tsx:418-438: a chunk of newline-terminated records is read from the stream.
\* After a record that stops the loop the job awaits the stream once more and
\* leaves the loop with nothing written (App.tsx:419, 439 and 448): the job is
\* taken to end with that record.
StreamChunk(t, recs) ==
    /\ Idle
    /\ BagIn(t, tasks) /\ t.kind = "page" /\ t.pc = "stream"
    /\ recs # <<>>
    /\ t.n + Len(recs) <= MaxRecords
    /\ Written(HandleLines(t, recs, Working))
    /\ tasks' = IF Stopped(recs)
                THEN Ended(t)
                ELSE Replace(t, [t EXCEPT !.n = @ + Len(recs)])
    /\ scenario' = TraceRecords(recs, scenario)
    /\ UNCHANGED << isScreenshotModalOpen, urlToClone, visitedUrls, consoleErrors,
                    fixAttempts, frozen, session, pageFetches, qcCalls, fixCalls, posted >>
    /\ Commit(HandleLines(t, recs, Working).fresh)

\* App.tsx:439-450: the stream ends; what is left in the buffer is handled as
\* a last record, and the queue advances
StreamEnd(t, rec) ==
    /\ Idle
    /\ BagIn(t, tasks) /\ t.kind = "page" /\ t.pc = "stream"
    /\ rec.action # "none" => t.n < MaxRecords
    /\ LET S == HandleLine(t, rec, Working)
       IN  Written([S EXCEPT !.cloningQueue = Slice1(@)])
    /\ tasks' = Ended(t)
    /\ LET seen == TraceRecord(rec, scenario)
       IN  scenario' = IF seen.files = 1 THEN seen ELSE Disturbed
    /\ UNCHANGED << isScreenshotModalOpen, urlToClone, visitedUrls, consoleErrors,
                    fixAttempts, frozen, session, pageFetches, qcCalls, fixCalls, posted >>
    /\ Commit(HandleLine(t, rec, Working).fresh \cup {"cloningQueue"})

\* The stream throws while it is read: the catch of processQueue
StreamFailed(t) ==
    /\ Idle
    /\ BagIn(t, tasks) /\ t.kind = "page" /\ t.pc = "stream"
    /\ CloneFailed(t, "stream failed")

-----------------------------------------------------------------------------
(* The quality review and the auto-fix after their await, App.tsx:206-241 and *)
(* 300-335.  The preview refresh of App.tsx:226-229 and 322-325 appends a      *)
(* blank that a timer trims again: mainHtmlContent is kept up to that blank.   *)

FileUpdate(path, content) == [path |-> path, content |-> content]

\* The filesToUpdate of a response: none, one file, or a script and a page
UpdatesOf(paths, contents) ==
    {<<>>} \cup {<<FileUpdate(p, c)>> : p \in paths, c \in contents}
           \cup {<<FileUpdate(<<"app.js">>, c), FileUpdate(<<"index.html">>, c)>> :
                     c \in contents}

RECURSIVE ApplyUpdates(_, _)
ApplyUpdates(fs, files) ==
    IF files = <<>> THEN fs
    ELSE ApplyUpdates(addFileToSystem(fs, Head(files).path, Head(files).content),
                      Tail(files))

RECURSIVE PreviewAfter(_, _)
PreviewAfter(html, files) ==
    IF files = <<>> THEN html
    ELSE PreviewAfter(IF EndsWithHtml(Head(files).path)
                      THEN CAPTURE_SCRIPT \o Head(files).content
                      ELSE html,
                      Tail(files))

RECURSIVE LogEach(_, _, _, _)
LogEach(log, files, type, message) ==
    IF files = <<>> THEN log
    ELSE LogEach(addLog(log, type, message), Tail(files), type, message)

\* App.tsx:213-225 and 309-321: the files are merged into a copy of the tree
\* the call's closure holds, and that copy becomes the tree
MergeUpdates(t, files) ==
    /\ fileSystem' = ApplyUpdates(t.fileSystem, files)
    /\ mainHtmlContent' = PreviewAfter(mainHtmlContent, files)

\* What the end of a call leaves alone, and the commit that follows it
CallEnds(t, ok, files) ==
    /\ tasks' = Ended(t)
    /\ UNCHANGED << isScreenshotModalOpen, urlToClone, authUrl, cloningQueue, visitedUrls,
                    consoleErrors, fixAttempts, frozen, session, pageFetches, qcCalls,
                    fixCalls, posted >>
    /\ Commit(IF ok /\ files # <<>> THEN {"fileSystem"} ELSE {})

\* App.tsx:206-241
QualityDone(t, ok, files) ==
    /\ Idle
    /\ BagIn(t, tasks) /\ t.kind = "review"
    /\ ~ok => files = <<>>
    /\ IF ~ok
       THEN /\ agentLogs' = addLog(agentLogs, "ERROR", "Failed to perform quality check")
            /\ cloningState' = ERROR
            /\ scenario' = Disturbed
            /\ UNCHANGED << fileSystem, mainHtmlContent >>
       ELSE /\ cloningState' = COMPLETED
            /\ scenario' = Trace(COMPLETED)
            /\ IF files = <<>>
               THEN /\ agentLogs' =
                          addLog(addLog(agentLogs, "SYSTEM", "No improvements suggested."),
                                 "SYSTEM", "Cloning process complete.")
                    /\ UNCHANGED << fileSystem, mainHtmlContent >>
               ELSE /\ agentLogs' =
                          addLog(addLog(LogEach(addLog(agentLogs, "SYSTEM", "AI Quality Review"),
                                                files, "DEBUG", "applying quality improvement"),
                                        "SUCCESS", "AI applied quality improvements."),
                                 "SYSTEM", "Cloning process complete.")
                    /\ MergeUpdates(t, files)
    /\ CallEnds(t, ok, files)

\* App.tsx:300-335
FixDone(t, ok, files) ==
    /\ Idle
    /\ BagIn(t, tasks) /\ t.kind = "fix"
    /\ ~ok => files = <<>>
    /\ IF ~ok
       THEN /\ agentLogs' = addLog(agentLogs, "ERROR", "Failed to apply fix")
            /\ cloningState' = ERROR
            /\ UNCHANGED << fileSystem, mainHtmlContent >>
       ELSE IF files = <<>>
       THEN /\ agentLogs' = addLog(addLog(agentLogs, "SYSTEM", "AI Analysis"),
                                   "WARN", "Stopping auto-fix.")
            /\ cloningState' = ERROR
            /\ UNCHANGED << fileSystem, mainHtmlContent >>
       ELSE /\ agentLogs' =
                  addLog(LogEach(addLog(agentLogs, "SYSTEM", "AI Analysis"),
                                 files, "DEBUG", "applying fix"),
                         "SUCCESS", "AI proposed a fix.")
            /\ MergeUpdates(t, files)
            /\ cloningState' = COMPLETED
    /\ scenario' = Disturbed
    /\ CallEnds(t, ok, files)

-----------------------------------------------------------------------------
(* The specification: every handler, effect and step, under an environment *)
(* of two sites, one file content, one console message and one session.     *)

SiteUrls == {"https://a/1", "https://a/2"}
SiteRecords == RecordsOf({"thought", "garbage"}, Paths, {"v1"}, SiteUrls \cup {SELF_REF, BAD_URL})
SiteUpdates == UpdatesOf(Paths, {"v1"})

Next ==
    \/ \E rawUrl \in RawUrls, useScreenshot, openFails \in BOOLEAN :
           session < MaxSessions /\ handleInitiateCloning(rawUrl, useScreenshot, openFails)
    \/ handleScreenshotReady
    \/ ScreenshotCancel
    \/ \E nextUrl \in SiteUrls \cup {""} : handleResumeCloning(nextUrl)
    \/ AuthCancel
    \/ \E message \in {"E"} : posted < MaxMessages /\ handleMessage(message)
    \/ ProcessQueueEffect
    \/ QualityTransitionEffect
    \/ QualityCheckEffect
    \/ AutoFixEffect
    \/ \E t \in BagToSet(tasks) :
           \/ \E outcome \in {"ok", "404", "error"}, found \in SUBSET AssetNames :
                  FetchDone(t, outcome, found)
           \/ \E outcomes \in [t.assets -> AssetOutcomes] : AssetsDone(t, Fetched(outcomes))
           \/ \E ok \in BOOLEAN : ScreenshotDone(t, ok)
           \/ \E ok \in BOOLEAN : ModelOpened(t, ok)
           \/ \E recs \in ChunksOf(SiteRecords) : StreamChunk(t, recs)
           \/ \E rec \in SiteRecords \cup {NoRecord} : StreamEnd(t, rec)
           \/ StreamFailed(t)
           \/ \E ok \in BOOLEAN, files \in SiteUpdates : QualityDone(t, ok, files)
           \/ \E ok \in BOOLEAN, files \in SiteUpdates : FixDone(t, ok, files)

Spec == Init /\ [][Next]_vars

-----------------------------------------------------------------------------
(* The fix loop: a site of one page whose preview posts up to FixMessages    *)
(* console messages in each of FixSessions sessions.                         *)

PageRecords == RecordsOf({"thought"}, Paths, {"v1"}, {SELF_REF})
PageUpdates == UpdatesOf(Paths, {"v2"})

NextFix ==
    \/ \E rawUrl \in RawUrls :
           session < FixSessions /\ handleInitiateCloning(rawUrl, FALSE, FALSE)
    \/ \E nextUrl \in {"https://a/1", ""} : handleResumeCloning(nextUrl)
    \/ AuthCancel
    \/ \E message \in ErrorMessages : posted < FixMessages /\ handleMessage(message)
    \/ ProcessQueueEffect
    \/ QualityTransitionEffect
    \/ QualityCheckEffect
    \/ AutoFixEffect
    \/ \E t \in BagToSet(tasks) :
           \/ \E outcome \in {"ok", "error"} \cup HttpFailures : FetchDone(t, outcome, {})
           \/ \E ok \in BOOLEAN : ModelOpened(t, ok)
           \/ \E recs \in ChunksOf(PageRecords) : StreamChunk(t, recs)
           \/ \E rec \in PageRecords \cup {NoRecord} : StreamEnd(t, rec)
           \/ StreamFailed(t)
           \/ \E ok \in BOOLEAN, files \in PageUpdates : QualityDone(t, ok, files)
           \/ \E ok \in BOOLEAN, files \in PageUpdates : FixDone(t, ok, files)

\* The runs of the fix loop keep the last LogKeep entries of the log
InitLogged ==
    /\ cloningState = IDLE
    /\ agentLogs = <<>>
    /\ fileSystem = EmptyFS
    /\ mainHtmlContent = NULL
    /\ isScreenshotModalOpen = FALSE
    /\ urlToClone = ""
    /\ authUrl = ""
    /\ cloningQueue = <<>>
    /\ visitedUrls = {}
    /\ consoleErrors = <<>>
    /\ fixAttempts = 0
    /\ rendered = Snapshot
    /\ fresh = {}
    /\ pendingEffects = {}
    /\ tasks = EmptyBag
    /\ logWindow = LogKeep
    /\ session = 0
    /\ pageFetches = NoFetches
    /\ qcCalls = 0
    /\ fixCalls = 0
    /\ posted = 0
    /\ scenario = [trace |-> <<IDLE>>, files |-> 0]
    /\ inserted = <<>>
    /\ reader = NoReader

SpecFix == InitLogged /\ [][NextFix]_vars

-----------------------------------------------------------------------------
(* The crawl: a site of three pages that link to one another, with no console *)
(* message from the preview.                                                  *)

CrawlUrls == {"https://a/1", "https://a/2", "https://a/3"}
CrawlRecords ==
    RecordsOf({"thought"}, {<<"index.html">>}, {"v1"}, CrawlUrls \cup {SELF_REF, BAD_URL})
CrawlUpdates == {<<>>, <<FileUpdate(<<"index.html">>, "v2")>>}

NextCrawl ==
    \/ \E rawUrl \in RawUrls :
           session < CrawlSessions /\ handleInitiateCloning(rawUrl, FALSE, FALSE)
    \/ \E nextUrl \in CrawlUrls \cup {""} : handleResumeCloning(nextUrl)
    \/ AuthCancel
    \/ ProcessQueueEffect
    \/ QualityTransitionEffect
    \/ QualityCheckEffect
    \/ \E t \in BagToSet(tasks) :
           \/ \E outcome \in {"ok", "404", "error"} : FetchDone(t, outcome, {})
           \/ \E ok \in BOOLEAN : ModelOpened(t, ok)
           \/ \E recs \in ChunksOf(CrawlRecords) : StreamChunk(t, recs)
           \/ \E rec \in CrawlRecords \cup {NoRecord} : StreamEnd(t, rec)
           \/ StreamFailed(t)
           \/ \E ok \in BOOLEAN, files \in CrawlUpdates : QualityDone(t, ok, files)

SpecCrawl == Init /\ [][NextCrawl]_vars

-----------------------------------------------------------------------------
(* The chain: a site of MAX_PAGES + 1 pages, each linking to the next one;   *)
(* a page answers with its link or with an auth wall, and the user resumes   *)
(* with the page that follows the wall.                                      *)

ChainOrder == <<"https://a/1", "https://a/2", "https://a/3", "https://a/4",
                "https://a/5", "https://a/6">>

Successor(url) ==
    IF \E k \in 1..Len(ChainOrder) - 1 : ChainOrder[k] = url
    THEN ChainOrder[(CHOOSE k \in 1..Len(ChainOrder) - 1 : ChainOrder[k] = url) + 1]
    ELSE url

ChainRecords(url) == RecordsOf({}, {}, {}, {Successor(url)})

NextChain ==
    \/ session < ChainSessions /\ handleInitiateCloning(<<"a/1">>, FALSE, FALSE)
    \/ authUrl # "" /\ handleResumeCloning(Successor(authUrl))
    \/ ProcessQueueEffect
    \/ QualityTransitionEffect
    \/ QualityCheckEffect
    \/ \E t \in BagToSet(tasks) :
           \/ FetchDone(t, "ok", {})
           \/ ModelOpened(t, TRUE)
           \/ \E recs \in ChunksOf(ChainRecords(t.url)) : StreamChunk(t, recs)
           \/ \E rec \in ChainRecords(t.url) \cup {NoRecord} : StreamEnd(t, rec)
           \/ QualityDone(t, TRUE, <<>>)

SpecChain == Init /\ [][NextChain]_vars

-----------------------------------------------------------------------------
(* The resumption: a site of three pages that link to one another or answer  *)
(* with an auth wall, and a user who resumes with a fourth page.             *)

RESUME_URL == "https://a/4"
WallRecords == RecordsOf({}, {}, {}, {"https://a/2", "https://a/3"})

NextResume ==
    \/ session < CrawlSessions /\ handleInitiateCloning(<<"a/1">>, FALSE, FALSE)
    \/ handleResumeCloning(RESUME_URL)
    \/ ProcessQueueEffect
    \/ QualityTransitionEffect
    \/ QualityCheckEffect
    \/ \E t \in BagToSet(tasks) :
           \/ FetchDone(t, "ok", {})
           \/ ModelOpened(t, TRUE)
           \/ \E recs \in ChunksOf(WallRecords) : StreamChunk(t, recs)
           \/ \E rec \in WallRecords \cup {NoRecord} : StreamEnd(t, rec)
           \/ QualityDone(t, TRUE, <<>>)

SpecResume == Init /\ [][NextResume]_vars

-----------------------------------------------------------------------------
(* The file tree on its own: up to MaxInserts files are inserted into an     *)
(* empty tree, at paths that are prefixes and extensions of one another and  *)
(* at a path with empty segments ("/a/b"), as the file record of a stream    *)
(* inserts them (App.tsx:465-469).                                           *)

TreePaths == { <<"a">>, <<"a", "b">>, <<"a", "b", "c.txt">>, <<"", "a", "b">> }

InsertFile(path, content) ==
    /\ fileSystem' = addFileToSystem(fileSystem, path, content)
    /\ inserted' = Append(inserted, FileUpdate(path, content))
    /\ UNCHANGED << cloningState, agentLogs, mainHtmlContent, isScreenshotModalOpen,
                    urlToClone, authUrl, cloningQueue, visitedUrls, consoleErrors,
                    fixAttempts, rendered, fresh, pendingEffects, tasks, logWindow,
                    session, pageFetches, qcCalls, fixCalls, posted, scenario, reader >>

NextTree ==
    \E path \in TreePaths, content \in Contents :
        Len(inserted) < MaxInserts /\ InsertFile(path, content)

SpecTree == Init /\ [][NextTree]_vars

-----------------------------------------------------------------------------------------------------------------------------------------------------
(* The seeded crawl: a site of MAX_PAGES + 1 pages, each linking to the two  *)
(* pages that follow it: the model streams the link to the next page as a    *)
(* line and the link to the page after it, if at all, as the trailing text.  *)
(* Every fetch and every model call returns, no page is an auth wall, and    *)
(* the effects and the continuations of the jobs run whenever they can.      *)

NextLink(url) == Record("nextPage", <<>>, "", Successor(url))
SecondLink(url) == Record("nextPage", <<>>, "", Successor(Successor(url)))

FanSystem ==
    \/ ProcessQueueEffect
    \/ QualityTransitionEffect
    \/ QualityCheckEffect
    \/ \E t \in BagToSet(tasks) :
           \/ FetchDone(t, "ok", {})
           \/ ModelOpened(t, TRUE)
           \/ t.n = 0 /\ StreamChunk(t, <<NextLink(t.url)>>)
           \/ \E rec \in {SecondLink(t.url), NoRecord} : StreamEnd(t, rec)
           \/ QualityDone(t, TRUE, <<>>)

NextFan ==
    \/ session < CrawlSessions /\ handleInitiateCloning(<<"a/1">>, FALSE, FALSE)
    \/ FanSystem

SpecFan == Init /\ [][NextFan]_vars /\ WF_vars(FanSystem)

-----------------------------------------------------------------------------
(* The preview: a site of two pages whose streams carry the page index.html  *)
(* with one content or another and a link to the second page, and a review   *)
(* that rewrites index.html or leaves it alone.                              *)

PreviewRecords == RecordsOf({}, {<<"index.html">>}, Contents, {"https://a/2"})
                      \ {Record("authWall", <<>>, "", "")}

NextPreview ==
    \/ session < MaxSessions /\ handleInitiateCloning(<<"a/1">>, FALSE, FALSE)
    \/ ProcessQueueEffect
    \/ QualityTransitionEffect
    \/ QualityCheckEffect
    \/ \E t \in BagToSet(tasks) :
           \/ FetchDone(t, "ok", {})
           \/ ModelOpened(t, TRUE)
           \/ \E recs \in ChunksOf(PreviewRecords) : StreamChunk(t, recs)
           \/ \E rec \in PreviewRecords \cup {NoRecord} : StreamEnd(t, rec)
           \/ \E files \in CrawlUpdates : QualityDone(t, TRUE, files)

SpecPreview == Init /\ [][NextPreview]_vars

-----------------------------------------------------------------------------
(* The assets: a site of two pages with up to two assets each, cloned with   *)
(* or without a screenshot; the streams carry a thought, a file, a link to   *)
(* the second page and lines that are no JSON, and the runs keep the last    *)
(* LogKeep entries of the log.                                               *)

AssetRecords ==
    RecordsOf({"thought", "garbage"}, {<<"index.html">>}, {"v1"}, {"https://a/2"})
        \ {Record("authWall", <<>>, "", "")}

NextAssets ==
    \/ \E rawUrl \in RawUrls, useScreenshot, openFails \in BOOLEAN :
           session < MaxSessions /\ handleInitiateCloning(rawUrl, useScreenshot, openFails)
    \/ handleScreenshotReady
    \/ ScreenshotCancel
    \/ ProcessQueueEffect
    \/ QualityTransitionEffect
    \/ QualityCheckEffect
    \/ \E t \in BagToSet(tasks) :
           \/ \E outcome \in {"ok", "404"}, found \in SUBSET AssetNames :
                  FetchDone(t, outcome, found)
           \/ \E outcomes \in [t.assets -> AssetOutcomes] : AssetsDone(t, Fetched(outcomes))
           \/ \E ok \in BOOLEAN : ScreenshotDone(t, ok)
           \/ \E ok \in BOOLEAN : ModelOpened(t, ok)
           \/ \E recs \in ChunksOf(AssetRecords) : StreamChunk(t, recs)
           \/ \E rec \in AssetRecords \cup {NoRecord} : StreamEnd(t, rec)
           \/ \E ok \in BOOLEAN : QualityDone(t, ok, <<>>)

SpecAssets == InitLogged /\ [][NextAssets]_vars

-----------------------------------------------------------------------------
(* The stream loop on its own, App.tsx:415-446: the text of a response is    *)
(* read in chunks cut anywhere, also within a line.  A text is a sequence of *)
(* characters: letters, blanks and newlines; the line "w" is the authWall    *)
(* record, any other line of letters is a record that does not stop the loop *)
(* or a line that is no JSON.                                                *)

MaxText == 5         \* characters of one response text

NEWLINE == "\n"
Chars == {"x", "w", " ", NEWLINE}
\* The chunks of at most n characters, the empty one among them
TextChunks(n) == UNION {[1..k -> Chars] : k \in 0..n}

\* buffer.indexOf('\n'), counted from 1; 0 when there is none
IndexOfNewline(buffer) ==
    IF \E i \in 1..Len(buffer) : buffer[i] = NEWLINE
    THEN CHOOSE i \in 1..Len(buffer) :
             buffer[i] = NEWLINE /\ \A j \in 1..(i - 1) : buffer[j] # NEWLINE
    ELSE 0

\* App.tsx:428-432 and 474-478: the line parses to the record whose handling
\* returns true
StopsLoop(line) == line = <<"w">>

\* the chunk taken for the buffer, what was left of the last chunk dropped
Buffered_ChunkOnly(buffer, chunk) == chunk

\* App.tsx:420: buffer += chunk.text
Buffered(buffer, chunk) == buffer \o chunk

\* App.tsx:422-437: the lines the buffer holds are cut off it and handled, one
\* after the other, until none is left or one stops the loop
RECURSIVE ReadLines(_)
ReadLines(R) ==
    LET newlineIndex == IndexOfNewline(R.buffer)
        line == Trim(SubSeq(R.buffer, 1, newlineIndex - 1))
        rest == [R EXCEPT !.buffer = SubSeq(@, newlineIndex + 1, Len(@))]
    IN  IF newlineIndex = 0 THEN R
        ELSE IF line = <<>> THEN ReadLines(rest)
        ELSE IF StopsLoop(line)
        THEN [rest EXCEPT !.handled = Append(@, line), !.stopProcessing = TRUE]
        ELSE ReadLines([rest EXCEPT !.handled = Append(@, line)])

Cut(R, chunk) ==
    [R EXCEPT !.text = @ \o chunk,
              !.cuts = IF R.text # <<>> /\ chunk # <<>> THEN @ \cup {Len(R.text)} ELSE @]

\* App.tsx:439-446: what is left in the buffer when the loop is over
ReadRest(R) ==
    IF Trim(R.buffer) # <<>> /\ ~R.stopProcessing
    THEN [R EXCEPT !.handled = Append(@, Trim(R.buffer)), !.pc = "done"]
    ELSE [R EXCEPT !.pc = "done"]

Reads(R) ==
    /\ reader' = R
    /\ UNCHANGED << reactState, rendered, fresh, pendingEffects, tasks, logWindow,
                    session, pageFetches, qcCalls, fixCalls, posted, scenario, inserted >>

\* App.tsx:418-438: the stream yields a chunk
ReadChunk(chunk) ==
    /\ reader.pc = "stream"
    /\ Len(reader.text) + Len(chunk) <= MaxText
    /\ IF reader.stopProcessing
       THEN Reads(ReadRest(Cut(reader, chunk)))
       ELSE Reads(ReadLines([Cut(reader, chunk) EXCEPT !.buffer = Buffered(@, chunk)]))

\* App.tsx:418 and 439-446: the stream is over
ReadEnd ==
    /\ reader.pc = "stream"
    /\ Reads(ReadRest(reader))

NextStream ==
    \/ \E chunk \in TextChunks(MaxText - Len(reader.text)) : ReadChunk(chunk)
    \/ ReadEnd

SpecStream == Init /\ [][NextStream]_vars

-----------------------------------------------------------------------------
(* The restart: two sessions on a site of two pages without links and        *)
(* without auth wall, cloned with or without a screenshot; a page fetch      *)
(* succeeds or answers 404, and the model streams a file or nothing.         *)

RestartSessions == 2 \* clone initiations explored with the restart

RestartRecords == {Record("file", <<"index.html">>, "v1", "")}

NextRestart ==
    \/ \E rawUrl \in RawUrls, useScreenshot \in BOOLEAN :
           session < RestartSessions /\ handleInitiateCloning(rawUrl, useScreenshot, FALSE)
    \/ handleScreenshotReady
    \/ ScreenshotCancel
    \/ ProcessQueueEffect
    \/ QualityTransitionEffect
    \/ QualityCheckEffect
    \/ \E t \in BagToSet(tasks) :
           \/ \E outcome \in {"ok", "404"} : FetchDone(t, outcome, {})
           \/ ScreenshotDone(t, TRUE)
           \/ ModelOpened(t, TRUE)
           \/ \E rec \in RestartRecords \cup {NoRecord} : StreamEnd(t, rec)
           \/ QualityDone(t, TRUE, <<>>)

SpecRestart == Init /\ [][NextRestart]_vars

-----------------------------------------------------------------------------
(* Properties *)

PageJobsInFlight ==
    BagCardinality([t \in InFlight("page") |-> CopiesIn(t, tasks)])

\* C1: at most one page job is in flight at any time; while the stream of a
\* job is read, no other job's page fetch or model call has been started.
C1_OnePageJobInFlight == PageJobsInFlight <= 1

\* C2: in every reachable state the visited set holds at most MAX_PAGES URLs,
\* whatever the nextPage actions, auth walls and user resumptions.
C2_VisitedWithinBound == Cardinality(visitedUrls) <= MAX_PAGES

\* C3: within one session no URL is page-fetched more than once; a page fetch
\* starts only for a URL that is not in the visited set, and the step that
\* starts it adds the URL to the set.
C3_FetchedOncePerSession ==
    /\ [](\A u \in Urls : pageFetches[u] <= 1)
    /\ [][\A u \in Urls :
              (session' = session /\ pageFetches'[u] # pageFetches[u])
                  => (u \notin visitedUrls /\ u \in visitedUrls')]_vars

\* C3: the queue-processing step is about to run while the URL at the head of
\* the queue was fetched in this session and its job has ended.
C3_Witness ==
    /\ NextEffect("processQueue")
    /\ cloningQueue # <<>>
    /\ Head(cloningQueue).url \in Urls
    /\ pageFetches[Head(cloningQueue).url] = 1
    /\ Head(cloningQueue).url \in visitedUrls
    /\ PageJobsInFlight = 0

\* C4: when the state is CLONING and the URL of the head job is already in the
\* visited set, the queue-processing step removes exactly the head job and
\* changes nothing else: no call is started, and the state, the visited set,
\* the file tree and the rest of the queue are unchanged.
C4_VisitedHeadDropped ==
    [][(/\ ProcessQueueEffect
        /\ cloningState = CLONING
        /\ cloningQueue # <<>>
        /\ Head(cloningQueue).url \in visitedUrls)
          => /\ cloningQueue' = Tail(cloningQueue)
             /\ UNCHANGED << cloningState, visitedUrls, fileSystem, mainHtmlContent,
                             agentLogs, authUrl, consoleErrors, fixAttempts, tasks,
                             pageFetches, qcCalls, fixCalls >>]_vars

\* C4: the queue-processing step is about to run on a queue of two jobs whose
\* head is already visited.
C4_Witness ==
    /\ NextEffect("processQueue")
    /\ cloningState = CLONING
    /\ Len(cloningQueue) = 2
    /\ Head(cloningQueue).url \in visitedUrls

\* C5: per session the review model call is issued once, never a second time.
C5_ReviewedOnce == qcCalls <= 1

\* C5: the first review call of the session is in flight, a page job is still
\* reading its stream, and the state is QUALITY_CHECK.
C5_Overlap ==
    /\ cloningState = QUALITY_CHECK
    /\ qcCalls = 1
    /\ \E t \in InFlight("page") : t.pc = "stream"

\* C6: fixAttempts is the number of auto-fix model calls made since the last
\* clone initiation, and it never exceeds MAX_FIX_ATTEMPTS.
C6_AttemptsCountFixCalls ==
    fixAttempts = fixCalls /\ fixAttempts <= MAX_FIX_ATTEMPTS

\* C6: in the second session the ceiling is reached and a further console error
\* is pending.
C6_Witness ==
    /\ session = 2
    /\ fixAttempts = MAX_FIX_ATTEMPTS
    /\ fixCalls = MAX_FIX_ATTEMPTS
    /\ consoleErrors # <<>>

ErrorsAtCeiling(c) ==
    /\ Len(c.consoleErrors) > 0
    /\ c.fixAttempts = MAX_FIX_ATTEMPTS
    /\ c.cloningState # FIXING

\* C7: when console errors are pending with fixAttempts = MAX_FIX_ATTEMPTS and
\* the state is not FIXING, the auto-fix effect sets the state to ERROR and
\* starts no call, the state is ERROR once the effects have run, and no fix
\* call is started at the ceiling until a new clone is initiated.
C7_CeilingEndsInError ==
    /\ []((Idle /\ ErrorsAtCeiling(Snapshot)) => cloningState = ERROR)
    /\ [][(AutoFixEffect /\ ErrorsAtCeiling(rendered))
              => (cloningState' = ERROR /\ UNCHANGED << tasks, fixCalls, qcCalls >>)]_vars
    /\ [][(fixAttempts = MAX_FIX_ATTEMPTS /\ session' = session)
              => UNCHANGED << fixCalls, fixAttempts >>]_vars

\* C7: the auto-fix effect is about to run with an error pending at the
\* ceiling, in state COMPLETED.
C7_Witness ==
    /\ NextEffect("autoFix")
    /\ ErrorsAtCeiling(rendered)
    /\ rendered.cloningState = COMPLETED

\* The URL a submitted text stands for
SubmittedUrl(rawUrl) ==
    IF rawUrl = <<"a/1">> THEN "https://a/1" ELSE "https://a/2"

\* C8: handleInitiateCloning with a non-empty URL and no screenshot, in state
\* IDLE, COMPLETED or ERROR, sets the state to CLONING, empties the file tree,
\* the visited set and the console errors, zeroes the fix counter, leaves the
\* initialisation entry alone in the log and one job, for the scheme-normalised
\* URL, in the queue.
C8_InitiateResets ==
    [][\A rawUrl \in RawUrls :
           handleInitiateCloning(rawUrl, FALSE, FALSE)
               => /\ cloningState \in {IDLE, COMPLETED, ERROR}
                  /\ cloningState' = CLONING
                  /\ fileSystem' = EmptyFS
                  /\ visitedUrls' = {}
                  /\ consoleErrors' = <<>>
                  /\ fixAttempts' = 0
                  /\ agentLogs' = <<LogEntry("SYSTEM", INIT_MESSAGE)>>
                  /\ cloningQueue' = <<Job(SubmittedUrl(rawUrl), FALSE)>>]_vars

\* C8: a clone can be initiated from ERROR with files, visited pages, pending
\* console errors, a spent fix budget and a full log window.
C8_Witness ==
    /\ Idle
    /\ session = 1
    /\ cloningState = ERROR
    /\ fileSystem # EmptyFS
    /\ visitedUrls # {}
    /\ consoleErrors # <<>>
    /\ fixAttempts = MAX_FIX_ATTEMPTS
    /\ Len(agentLogs) = LogKeep

ScenarioStates == <<IDLE, CLONING, QUALITY_CHECK, COMPLETED>>

\* C9: from IDLE, a URL submitted without screenshot, a page fetch that
\* succeeds, a stream of one file with no nextPage and no auth wall, a review
\* that succeeds and no console error: the states are IDLE, CLONING,
\* QUALITY_CHECK, COMPLETED in this order, and the run rests in COMPLETED only.
C9_ScenarioOne ==
    Undisturbed =>
        /\ Len(scenario.trace) <= Len(ScenarioStates)
        /\ scenario.trace = SubSeq(ScenarioStates, 1, Len(scenario.trace))
        /\ cloningState = scenario.trace[Len(scenario.trace)]
        /\ (Idle /\ tasks = EmptyBag /\ session = 1) => cloningState = COMPLETED

\* C9: the scenario has run to its end.
C9_Witness ==
    /\ Undisturbed
    /\ scenario.trace = ScenarioStates
    /\ scenario.files = 1
    /\ Idle /\ tasks = EmptyBag

\* C10: when the first job of a session hits an auth wall, the state is
\* AWAITING_USER_INPUT, authUrl is the URL of the job and the file tree is what
\* it was before the job started (empty), whatever records came before the
\* authWall record.
C10_AuthWallKeepsTree ==
    (/\ cloningState = AWAITING_USER_INPUT
     /\ Cardinality(visitedUrls) = 1
     /\ qcCalls = 0 /\ fixCalls = 0)
        => (visitedUrls = {authUrl} /\ fileSystem = EmptyFS)

LastLog == IF agentLogs = <<>> THEN LogEntry("", "") ELSE agentLogs[Len(agentLogs)]

\* C11: when the page fetch of a job answers with a non-success status, the
\* state becomes ERROR, an ERROR entry carrying the URL and that status is
\* appended to the log, and the job ends there: it fetches no asset and calls
\* no model, and no other call is started.
C11_FailedStatusEndsJob ==
    [][\A t \in BagToSet(tasks), status \in HttpFailures :
           FetchDone(t, status, {})
               => /\ cloningState' = ERROR
                  /\ LastLog' = LogEntry("ERROR",
                                 "An error occurred: Failed to fetch URL " \o t.url
                                     \o ". Status: " \o status \o ".")
                  /\ tasks' = Ended(t)
                  /\ PageJobsInFlight' = PageJobsInFlight - 1
                  /\ UNCHANGED << fileSystem, cloningQueue, visitedUrls, qcCalls,
                                  fixCalls, pageFetches >>]_vars

\* C11: the page fetch of the second URL has answered 500: the state is ERROR,
\* the log ends with the entry of that failure and no job is in flight.
C11_Witness ==
    /\ cloningState = ERROR
    /\ LastLog = LogEntry("ERROR",
                   "An error occurred: Failed to fetch URL https://a/2. Status: 500.")
    /\ visitedUrls = {"https://a/2"}
    /\ tasks = EmptyBag


\* C12: from COMPLETED with fixAttempts = 0 and console errors pending, one fix
\* cycle runs and the state goes COMPLETED, FIXING, COMPLETED: while the fix
\* call that the first attempt started from COMPLETED is in flight, the state
\* is FIXING.
C12_FirstFixKeepsFixing ==
    \A t \in InFlight("fix") :
        (t.from = COMPLETED /\ fixAttempts = 1) => cloningState = FIXING

\* C12: the first fix call, started from COMPLETED, is in flight while a page
\* job of the crawl is still running.
C12_Witness ==
    /\ Idle
    /\ cloningState = FIXING /\ fixAttempts = 1
    /\ \E t \in InFlight("fix") : t.from = COMPLETED
    /\ InFlight("page") # {}

\* C13: a nextPage record whose URL resolves to a URL that is in the visited
\* set (the URL of its own page included) or in the queue leaves the queue
\* unchanged.
C13_VisitedNotEnqueued ==
    [][\A t \in InFlight("page"), rec \in CrawlRecords :
           (/\ StreamChunk(t, <<rec>>)
            /\ rec.action = "nextPage" /\ rec.url # BAD_URL
            /\ \/ ResolveUrl(rec.url, t.url) \in visitedUrls
               \/ Queued(cloningQueue, ResolveUrl(rec.url, t.url)))
               => cloningQueue' = cloningQueue]_vars

\* C13: the stream of a page is being read while the job of that page is no
\* longer in the queue.
C13_Witness ==
    /\ Idle
    /\ \E t \in InFlight("page") :
           /\ t.pc = "stream"
           /\ t.url \in visitedUrls
           /\ ~Queued(cloningQueue, t.url)

\* The pages a session is committed to: the visited URLs and the queued URLs
\* that are not visited yet
Committed(visited, queue) ==
    visited \cup {queue[i].url : i \in 1..Len(queue)}

\* C14: a nextPage record is enqueued only if the visited URLs and the queued
\* URLs not yet visited then number at most MAX_PAGES; a record that would
\* exceed the bound is dropped.
C14_EnqueueWithinBound ==
    [][\A t \in InFlight("page") : \A rec \in ChainRecords(t.url) :
           (/\ StreamChunk(t, <<rec>>)
            /\ rec.action = "nextPage"
            /\ cloningQueue' # cloningQueue)
               => Cardinality(Committed(visitedUrls', cloningQueue')) <= MAX_PAGES]_vars

\* C14: the stream of a page is being read when MAX_PAGES URLs are visited.
C14_Witness ==
    /\ Idle
    /\ Cardinality(visitedUrls) = MAX_PAGES
    /\ \E t \in InFlight("page") : t.pc = "stream" /\ t.n < MaxRecords

\* The last insertion made at the path of insertion i
LastAt(i) ==
    LET same == {j \in 1..Len(inserted) :
                     PathParts(inserted[j].path) = PathParts(inserted[i].path)}
    IN  CHOOSE j \in same : \A k \in same : k <= j

\* C15: after any sequence of insertions, every inserted path leads to a file
\* whose content is the content of the last insertion at that path, also when
\* the path is a prefix or an extension of another inserted path.
C15_LastWriteWins ==
    \A i \in 1..Len(inserted) :
        NodeAt(fileSystem, PathParts(inserted[i].path))
            = FileNode(inserted[LastAt(i)].content)

\* C15: a file was inserted at a path and a later one at an extension of it.
C15_Witness ==
    \E i, j \in 1..Len(inserted) :
        /\ i < j
        /\ inserted[i].path = <<"a">>
        /\ inserted[j].path = <<"a", "b">>

\* A path of several segments
Nested(path) == Len(PathParts(path)) > 1

RECURSIVE FilePaths(_)
FilePaths(fs) ==
    UNION { IF fs[n].type = "file"
            THEN {<<n>>}
            ELSE {<<n>> \o p : p \in FilePaths(fs[n].children)} : n \in DOMAIN fs }

\* C17: within a session the file tree only grows or is overwritten: every
\* path of a file in the tree is still the path of a file after any later
\* merge of a clone job, of the quality review or of the auto-fix.
C17_TreeKeepsPaths ==
    [][session' = session => FilePaths(fileSystem) \subseteq FilePaths(fileSystem')]_vars

\* C17: a review call is in flight whose closure holds a tree without a file
\* that the tree now has.
C17_Witness ==
    /\ Idle
    /\ \E t \in InFlight("review") \cup InFlight("fix") :
           ~(FilePaths(fileSystem) \subseteq FilePaths(t.fileSystem))

\* The ERROR entries the catch of a page job logs
CloneFailures ==
    {StatusMessage(u, status) : u \in Urls, status \in HttpFailures}
    \cup {"An error occurred: Failed to fetch", "An unknown error occurred.",
          "model call failed", "stream failed"}

\* The state is ERROR and the last thing logged is the failure of a page job
FailedCloning ==
    /\ cloningState = ERROR
    /\ LastLog.type = "ERROR" /\ LastLog.message \in CloneFailures

\* C18: once a fetch or model exception of a page job has set the state to
\* ERROR, the state stays ERROR until a new clone is initiated.
C18_ErrorIsTerminal ==
    [][(FailedCloning /\ session' = session) => cloningState' = ERROR]_vars

\* C18: the stream of a page failed after a page was written to the preview,
\* and the preview has posted a console error.
C18_Witness ==
    /\ FailedCloning
    /\ mainHtmlContent # NULL
    /\ consoleErrors # <<>>
    /\ fixAttempts = 0

\* C19: the job of a resumption leaves the queue only when its URL is visited:
\* the resumption URL is fetched unless it was visited already.
C19_ResumedUrlFetched ==
    [][(/\ cloningQueue # <<>>
        /\ Head(cloningQueue).resumed
        /\ cloningQueue' = Tail(cloningQueue)
        /\ session' = session)
           => Head(cloningQueue).url \in visitedUrls]_vars

\* C19: the user has resumed with a URL that is not visited, and its job waits
\* in the queue.
C19_Witness ==
    /\ cloningState = CLONING
    /\ \E i \in 1..Len(cloningQueue) :
           cloningQueue[i].resumed /\ cloningQueue[i].url \notin visitedUrls

\* The last thing logged is the dead end of a fix that returned no file
FixGaveUp == LastLog = LogEntry("WARN", "Stopping auto-fix.")

\* C20: a fix call that returns no file sets the state to ERROR and leaves the
\* file tree as it is, and after it no further fix attempt is started before
\* a new clone is initiated.
C20_EmptyFixIsDeadEnd ==
    /\ [][\A t \in InFlight("fix") :
              FixDone(t, TRUE, <<>>)
                  => (cloningState' = ERROR /\ fileSystem' = fileSystem /\ FixGaveUp')]_vars
    /\ [][(FixGaveUp /\ session' = session) => fixCalls' = fixCalls]_vars

\* C20: a fix has returned no file on its first attempt, and a console error
\* is pending.
C20_Witness ==
    /\ FixGaveUp
    /\ cloningState = ERROR
    /\ fixAttempts = 1
    /\ consoleErrors # <<>>

\* The entries of a list are pairwise different
NoDuplicates(list) ==
    \A i, j \in 1..Len(list) : list[i] = list[j] => i = j

\* C21: the console-error list never holds two equal strings; a received
\* message is appended if and only if no entry of the list contains it as a
\* substring, and otherwise the list is unchanged.
C21_ErrorsDeduplicated ==
    /\ [](NoDuplicates(consoleErrors))
    /\ [][\A message \in ErrorMessages :
              handleMessage(message)
                  => IF \E i \in 1..Len(consoleErrors) : Includes(consoleErrors[i], message)
                     THEN consoleErrors' = consoleErrors
                     ELSE consoleErrors' = Append(consoleErrors, message)]_vars

\* C21: four messages were received before any fix: two were appended, and
\* the two that an entry contains were dropped.
C21_Witness ==
    /\ posted = 4
    /\ fixCalls = 0
    /\ consoleErrors = <<"E", "E at x">>

\* The state in which a job of each kind is started: App.tsx:341, 510 and 245
Owner(kind) ==
    CASE kind = "page" -> CLONING
      [] kind = "review" -> QUALITY_CHECK
      [] kind = "fix" -> FIXING

\* The step is a continuation of the asynchronous job t
Continues(t) == CopiesIn(t, tasks') < CopiesIn(t, tasks)

\* C22: the file tree is written only by the component that owns the current
\* state: a clone job changes the tree only while the state is CLONING, the
\* quality review only while it is QUALITY_CHECK and the auto-fix only while it
\* is FIXING, and a job changes the state only while its component owns it.
C22_OwnerWrites ==
    [][\A t \in BagToSet(tasks) :
           (Continues(t) /\ (fileSystem' # fileSystem \/ cloningState' # cloningState))
               => cloningState = Owner(t.kind)]_vars

\* C22: the stream of a page job is still being read after the state has left
\* CLONING.
C22_Witness ==
    /\ Idle
    /\ cloningState \in {QUALITY_CHECK, COMPLETED, FIXING}
    /\ \E t \in InFlight("page") : t.pc = "stream" /\ t.n < MaxRecords

\* The queue q2 is the queue q with at most one job taken from its front
\* (prev.slice(1), App.tsx:345 and 449) and jobs added at its end only
\* ([...prev, job], App.tsx:148 and 485): the jobs that stay keep their places
\* in front of the new ones, and none overtakes.
FifoStep(q, q2) ==
    \E k \in {0, 1} :
        /\ k <= Len(q)
        /\ Len(q2) >= Len(q) - k
        /\ SubSeq(q2, 1, Len(q) - k) = SubSeq(q, k + 1, Len(q))

\* The page fetches a step starts
FetchesStarted ==
    {t \in BagToSet(tasks') :
         t.kind = "page" /\ t.pc = "fetch" /\ CopiesIn(t, tasks') > CopiesIn(t, tasks)}

\* C23: pages are fetched in the order their jobs were enqueued.  Within a
\* session a job enters the queue at its end and leaves it at its front, and
\* a page fetch starts for the job at the front only: a job enqueued before
\* another one has left the queue, fetched or not, when the fetch of the other
\* one starts.
C23_FifoFetchOrder ==
    /\ [][session' = session => FifoStep(cloningQueue, cloningQueue')]_vars
    /\ [][\A t \in FetchesStarted :
              /\ cloningQueue # <<>>
              /\ Head(cloningQueue).url = t.url
              /\ cloningQueue' = cloningQueue]_vars

\* C23: the queue-processing step is about to run on a queue of two jobs, none
\* of them visited, the job of the third page behind the job of the second.
C23_Witness ==
    /\ NextEffect("processQueue")
    /\ cloningState = CLONING
    /\ Len(cloningQueue) = 2
    /\ cloningQueue[1].url = "https://a/2" /\ cloningQueue[2].url = "https://a/3"
    /\ visitedUrls = {"https://a/1"}

\* The crawl has left CLONING
CrawlOver == cloningState \in {AWAITING_USER_INPUT, QUALITY_CHECK, ERROR}

\* C24: once the queue is seeded the crawl terminates: the state leaves CLONING
\* for AWAITING_USER_INPUT, QUALITY_CHECK or ERROR, and at most MAX_PAGES page
\* jobs are started on the way (every job marks its URL visited).
C24_CrawlTerminates ==
    /\ (cloningState = CLONING /\ cloningQueue # <<>>) ~> CrawlOver
    /\ [](Cardinality(visitedUrls) <= MAX_PAGES)

\* C24 without the bound: once the queue is seeded the state leaves CLONING.
C24_CrawlEnds ==
    (cloningState = CLONING /\ cloningQueue # <<>>) ~> CrawlOver

\* C24: MAX_PAGES pages are visited and a job waits in the queue, the state
\* being CLONING still.
C24_Witness ==
    /\ cloningState = CLONING
    /\ Cardinality(visitedUrls) = MAX_PAGES
    /\ \E i \in 1..Len(cloningQueue) : cloningQueue[i].url \notin visitedUrls

\* C25: the state becomes QUALITY_CHECK only from CLONING with an empty queue
\* and at least one visited page, and at that moment every page job started
\* in the session has finished: no page job is in flight.
C25_ReviewAfterAllJobs ==
    [][(cloningState' = QUALITY_CHECK /\ cloningState # QUALITY_CHECK)
           => /\ cloningState = CLONING
              /\ cloningQueue = <<>>
              /\ visitedUrls # {}
              /\ InFlight("page") = {}]_vars

\* C25: the quality transition is about to run while the page fetch of a job
\* has not returned yet.
C25_Witness ==
    /\ NextEffect("qualityTransition")
    /\ cloningState = CLONING
    /\ \E t \in InFlight("page") : t.pc = "fetch"

AuthWall == Record("authWall", <<>>, "", "")

\* The lines of a chunk up to its first authWall record, that record included
RECURSIVE UpToWall(_)
UpToWall(recs) ==
    IF recs = <<>> THEN <<>>
    ELSE IF Head(recs) = AuthWall THEN <<AuthWall>>
    ELSE <<Head(recs)>> \o UpToWall(Tail(recs))

\* C26: after an authWall record has been handled no later record of the page
\* is processed.  A chunk with an authWall line leaves the tree, the preview,
\* the queue and the log as its lines up to that record leave them, the job
\* ends with that chunk (no later chunk, no trailing text), and the queue
\* keeps the job; an authWall record that comes as the trailing text of the
\* stream leaves the queue as it is, too.
C26_NothingAfterAuthWall ==
    /\ [][\A t \in InFlight("page") : \A recs \in ChunksOf(PageRecords) :
              (StreamChunk(t, recs) /\ Stopped(recs))
                  => /\ fileSystem' = HandleLines(t, UpToWall(recs), Working).fileSystem
                     /\ mainHtmlContent' = HandleLines(t, UpToWall(recs), Working).mainHtmlContent
                     /\ cloningQueue' = HandleLines(t, UpToWall(recs), Working).cloningQueue
                     /\ agentLogs' = HandleLines(t, UpToWall(recs), Working).agentLogs
                     /\ cloningState' = AWAITING_USER_INPUT
                     /\ Queued(cloningQueue', t.url)
                     /\ tasks' = Ended(t)]_vars
    /\ [][\A t \in InFlight("page") :
              StreamEnd(t, AuthWall)
                  => (cloningState' = AWAITING_USER_INPUT /\ cloningQueue' = cloningQueue)]_vars

\* C26: the first job of a session has merged a file and then met an auth
\* wall: the user is asked for input and no page job is in flight.
C26_Witness ==
    /\ Idle
    /\ cloningState = AWAITING_USER_INPUT
    /\ authUrl \in visitedUrls
    /\ fileSystem # EmptyFS
    /\ InFlight("page") = {}
    /\ qcCalls = 0

\* C27: during cloning the preview document is the first HTML file merged in
\* the session: once the preview is set, within the session only a merge of
\* the quality review or of the auto-fix replaces it, no file record of a
\* clone job does.
C27_FirstHtmlIsPreview ==
    [][(session' = session /\ mainHtmlContent # NULL
            /\ mainHtmlContent' # mainHtmlContent)
           => \E t \in InFlight("review") \cup InFlight("fix") : Continues(t)]_vars

\* C27: index.html was merged and is the preview, and the stream of the page
\* is still being read.
C27_Witness ==
    /\ Idle
    /\ cloningState = CLONING
    /\ mainHtmlContent = CAPTURE_SCRIPT \o "v1"
    /\ \E t \in InFlight("page") : t.pc = "stream" /\ t.n < MaxRecords
    /\ PageJobsInFlight = 1

\* C28: whatever subset of the asset fetches of a page fails, with a
\* non-success status or with an exception, the job goes on to the model call
\* (through the encoding of the screenshot, if it has one) with exactly the
\* assets that were fetched, and the state does not change: it does not become
\* ERROR because of an asset.
C28_AssetFailuresTolerated ==
    [][\A t \in InFlight("page") : \A outcomes \in [t.assets -> AssetOutcomes] :
           AssetsDone(t, Fetched(outcomes))
               => /\ cloningState' = cloningState
                  /\ \E u \in InFlight("page")' :
                         /\ tasks' = Replace(t, u)
                         /\ u.url = t.url
                         /\ u.pc = IF t.screenshot THEN "screenshot" ELSE "model"
                         /\ u.assets = {a \in t.assets : outcomes[a] = "ok"}
                  /\ UNCHANGED << fileSystem, cloningQueue, visitedUrls >>]_vars

\* C28: the fetches of the two assets of a page are out.
C28_Witness ==
    /\ Idle
    /\ cloningState = CLONING
    /\ \E t \in InFlight("page") : t.pc = "assets" /\ t.assets = AssetNames

\* The entries of a log that tell of a failure
Failures(log) == {i \in 1..Len(log) : log[i].type \in {"WARN", "ERROR"}}

\* C29: every failure appends an entry to the agent log: when the asset
\* fetches of a page have returned and one of them failed, with a non-success
\* status or with an exception, a WARN or ERROR entry is in the log (the log
\* held none before).
C29_AssetFailureLogged ==
    [][\A t \in InFlight("page") : \A outcomes \in [t.assets -> AssetOutcomes] :
           (/\ AssetsDone(t, Fetched(outcomes))
            /\ \E a \in t.assets : outcomes[a] # "ok"
            /\ Failures(agentLogs) = {})
               => Failures(agentLogs') # {}]_vars

\* C29: the asset fetches of a page are out, and the log ends with the entry
\* that announces them.
C29_Witness ==
    /\ Idle
    /\ \E t \in InFlight("page") : t.pc = "assets" /\ t.assets # {}
    /\ LastLog = LogEntry("INFO", "Found assets (CSS/JS). Fetching...")

Garbage == Record("garbage", <<>>, "", "")

\* The lines of a chunk that parse as JSON
Parsed(recs) == SelectSeq(recs, LAMBDA r : r # Garbage)

\* C30: a streamed line that fails to parse as JSON is logged and skipped.
\* Alone in a chunk it appends a DEBUG entry and leaves the state, the queue,
\* the visited set, the file tree and the preview unchanged; in a chunk with
\* other lines, these are handled exactly as if the line were absent; as the
\* trailing text of the stream it is logged, and the stream ends as one with
\* no trailing text.
C30_GarbageSkipped ==
    /\ [][\A t \in InFlight("page") :
              StreamChunk(t, <<Garbage>>)
                  => /\ agentLogs' = addLog(agentLogs, "DEBUG", "AI Output (non-JSON)")
                     /\ UNCHANGED << cloningState, cloningQueue, visitedUrls, fileSystem,
                                     mainHtmlContent, authUrl >>]_vars
    /\ [][\A t \in InFlight("page") : \A recs \in ChunksOf(AssetRecords) :
              StreamChunk(t, recs)
                  => LET clean == HandleLines(t, Parsed(recs), Working)
                     IN  /\ cloningState' = clean.cloningState
                         /\ cloningQueue' = clean.cloningQueue
                         /\ fileSystem' = clean.fileSystem
                         /\ mainHtmlContent' = clean.mainHtmlContent
                         /\ authUrl' = clean.authUrl
                         /\ visitedUrls' = visitedUrls]_vars
    /\ [][\A t \in InFlight("page") :
              StreamEnd(t, Garbage)
                  => /\ agentLogs' = addLog(agentLogs, "DEBUG", "AI Output (non-JSON)")
                     /\ cloningQueue' = Slice1(cloningQueue)
                     /\ UNCHANGED << cloningState, visitedUrls, fileSystem,
                                     mainHtmlContent, authUrl >>]_vars

\* C30: the stream of a page has carried a line that is no JSON, which is the
\* last entry of the log, and the stream is still being read.
C30_Witness ==
    /\ Idle
    /\ LastLog = LogEntry("DEBUG", "AI Output (non-JSON)")
    /\ cloningState = CLONING
    /\ \E t \in InFlight("page") : t.pc = "stream" /\ t.n = 1

\* The lines of a text, each trimmed: what stands before each of its newlines
RECURSIVE LinesFrom(_, _, _)
LinesFrom(text, from, i) ==
    IF i > Len(text) THEN <<>>
    ELSE IF text[i] = NEWLINE
    THEN <<Trim(SubSeq(text, from, i - 1))>> \o LinesFrom(text, i + 1, i + 1)
    ELSE LinesFrom(text, from, i + 1)

Lines(text) == SelectSeq(LinesFrom(text, 1, 1), LAMBDA l : l # <<>>)

\* The text after the last newline, trimmed
LastLine(text) ==
    LET ends == {i \in 1..Len(text) : text[i] = NEWLINE}
        last == IF ends = {} THEN 0 ELSE CHOOSE i \in ends : \A j \in ends : j <= i
    IN  Trim(SubSeq(text, last + 1, Len(text)))

\* The lines up to the first one that is the authWall record, that one included
RECURSIVE UpToStop(_)
UpToStop(lines) ==
    IF lines = <<>> THEN <<>>
    ELSE IF StopsLoop(Head(lines)) THEN <<Head(lines)>>
    ELSE <<Head(lines)>> \o UpToStop(Tail(lines))

\* What a text has handled once its stream is over: the lines that end with a
\* newline, then the last line if no line stopped the loop
HandledOf(text) ==
    IF \E i \in 1..Len(Lines(text)) : StopsLoop(Lines(text)[i])
    THEN UpToStop(Lines(text))
    ELSE Lines(text) \o (IF LastLine(text) = <<>> THEN <<>> ELSE <<LastLine(text)>>)

\* C31: the records handled for a page depend on the text of the stream alone,
\* not on how it is cut into chunks: while the stream is read, the lines handled
\* are the newline-terminated lines of the text read so far, each once and in
\* order (blank lines carry no record, and nothing is handled after an authWall
\* line); once the stream is over, the text after the last newline, if it is
\* not blank, has been handled once after them.
C31_ChunkingIndependent ==
    reader.handled = IF reader.pc = "done"
                     THEN HandledOf(reader.text)
                     ELSE UpToStop(Lines(reader.text))

\* C31: the text of two lines, the second without a newline, has been read in
\* three chunks, the first line cut in two, and both lines were handled.
C31_Witness ==
    /\ reader.pc = "done"
    /\ reader.text = <<"x", "x", NEWLINE, "x">>
    /\ reader.cuts = {1, 3}
    /\ reader.handled = << <<"x", "x">>, <<"x">> >>

CANCEL_MESSAGE == "User cancelled authentication"

\* The prompt was cancelled and nothing has been logged since
JustCancelled == LastLog = LogEntry("WARN", CANCEL_MESSAGE)

\* C32: cancelling the auth prompt sets the state to ERROR and leaves the
\* queue, the visited set and the file tree unchanged; after it, until a new
\* clone is initiated, the state stays ERROR and no page fetch, review call or
\* fix call is started.
C32_CancelStopsEverything ==
    /\ [][AuthCancel => /\ cloningState = AWAITING_USER_INPUT
                        /\ cloningState' = ERROR
                        /\ UNCHANGED << cloningQueue, visitedUrls, fileSystem >>]_vars
    /\ [][(JustCancelled /\ session' = session)
              => UNCHANGED << cloningState, pageFetches, qcCalls, fixCalls, tasks >>]_vars

\* C32: the prompt of the only job of the session was cancelled with a console
\* error pending: no call is in flight, the state is ERROR, and the auto-fix
\* effect is about to start a fix call.
C32_Witness ==
    /\ JustCancelled
    /\ cloningState = ERROR
    /\ tasks = EmptyBag
    /\ qcCalls = 0 /\ fixCalls = 0
    /\ Cardinality(visitedUrls) = 1
    /\ NextEffect("autoFix")
    /\ CanAutoFix(rendered)

\* The URLs of the jobs of a queue
QueuedUrls(queue) == {queue[i].url : i \in 1..Len(queue)}

\* C33: within a session a job leaves the queue only if its URL is in the
\* visited set at that moment: no queued URL is dropped without having been
\* claimed for processing.
C33_RemovedOnlyIfVisited ==
    [][session' = session
           => \A u \in QueuedUrls(cloningQueue) \ QueuedUrls(cloningQueue') :
                  u \in visitedUrls]_vars

\* C33: a job still reads its stream while the head of the queue is a URL that
\* no job has claimed and the state is not CLONING: the end of that stream will
\* advance the queue.
C33_Witness ==
    /\ Idle
    /\ cloningState # CLONING
    /\ cloningQueue # <<>>
    /\ Head(cloningQueue).url \notin visitedUrls
    /\ pageFetches[Head(cloningQueue).url] = 0
    /\ \E t \in InFlight("page") : t.pc = "stream" /\ t.url # Head(cloningQueue).url

\* C34: whenever the state is QUALITY_CHECK or COMPLETED the queue is empty,
\* also when COMPLETED is reached through an auto-fix that started from ERROR.
C34_DoneMeansQueueEmpty ==
    cloningState \in {QUALITY_CHECK, COMPLETED} => cloningQueue = <<>>

\* C34: the only job of the session failed, no review was made, a fix that
\* started from ERROR has ended, and the state is COMPLETED with the failed job
\* still in the queue.
C34_Witness ==
    /\ Idle
    /\ cloningState = COMPLETED
    /\ cloningQueue # <<>>
    /\ qcCalls = 0 /\ fixCalls = 1
    /\ tasks = EmptyBag
    /\ Cardinality(visitedUrls) = 1

\* C35: after a new clone is initiated no job the previous session left in the
\* queue is processed; on a site without links and without auth wall, every
\* URL fetched in a session is the URL submitted for it, also when the clone is
\* initiated with a screenshot from ERROR with a non-empty queue.
C35_NoLeftoverJobProcessed ==
    \A u \in Urls : pageFetches[u] > 0 => u = urlToClone

\* C35: the second clone was initiated with a screenshot for another URL, the
\* modal is still open, and the page the first session failed on has been
\* fetched again.
C35_Witness ==
    /\ session = 2
    /\ isScreenshotModalOpen
    /\ cloningState = CLONING
    /\ urlToClone = "https://a/2"
    /\ pageFetches["https://a/1"] = 1
    /\ pageFetches["https://a/2"] = 0

\* C36: the machine never rests in CLONING with nothing pending: once the
\* effects have run, state CLONING means that the queue is non-empty, or a page
\* job is in flight, or the screenshot modal is open.
C36_NeverParkedInCloning ==
    (Idle /\ cloningState = CLONING)
        => \/ cloningQueue # <<>>
           \/ PageJobsInFlight > 0
           \/ isScreenshotModalOpen

\* C36: the screenshot modal of the first clone was cancelled: the state is
\* CLONING with an empty queue, nothing visited, no call in flight and no
\* effect to run, and a clone can be initiated from IDLE, COMPLETED or ERROR
\* only.
C36_Witness ==
    /\ Idle
    /\ session = 1
    /\ cloningState = CLONING
    /\ rendered.cloningState = CLONING
    /\ ~isScreenshotModalOpen
    /\ cloningQueue = <<>>
    /\ visitedUrls = {}
    /\ tasks = EmptyBag

\* q is a path of fewer segments that p starts with
StrictPrefix(q, p) == Len(q) < Len(p) /\ SubSeq(p, 1, Len(q)) = q

\* The paths of the insertions, as they were given and without their empty
\* segments
InsertedPaths == [i \in 1..Len(inserted) |-> inserted[i].path]
CleanPaths == [i \in 1..Len(inserted) |-> PathParts(inserted[i].path)]

\* The insertions that no later insertion undid: none was made later at the
\* same path, at a strict prefix of it or at a strict extension of it
Kept(paths) ==
    {i \in 1..Len(paths) :
         \A j \in (i + 1)..Len(paths) :
             /\ paths[j] # paths[i]
             /\ ~StrictPrefix(paths[j], paths[i])
             /\ ~StrictPrefix(paths[i], paths[j])}

\* The entries of the insertions that were kept
KeptEntries(paths) ==
    {FileEntry(JoinPath(paths[i]), inserted[i].content) : i \in Kept(paths)}

Listing == getFileSystemAsText(fileSystem)

StartsWith(longer, list) ==
    Len(list) <= Len(longer) /\ SubSeq(longer, 1, Len(list)) = list

\* A fix call ends in this step
FixEnds == \E t \in InFlight("fix") : Continues(t)

\* C38: a console error received while the state is FIXING is not lost: while
\* the state is FIXING the console-error list only grows and the state changes
\* only when the fix ends, so that the error is in the list at that moment;
\* when the fix ends with an error in the list and fixAttempts <
\* MAX_FIX_ATTEMPTS, in COMPLETED or ERROR, the auto-fix effect runs next and
\* starts a further fix call with the errors of the list.
C38_ErrorWhileFixingKept ==
    /\ [][(cloningState = FIXING /\ session' = session)
              => /\ StartsWith(consoleErrors', consoleErrors)
                 /\ cloningState' # FIXING => FixEnds]_vars
    /\ [][(FixEnds /\ consoleErrors # <<>> /\ fixAttempts < MAX_FIX_ATTEMPTS)
              => /\ cloningState' \in {COMPLETED, ERROR}
                 /\ consoleErrors' = consoleErrors
                 /\ NextEffect("autoFix")'
                 /\ CanAutoFix(rendered')]_vars
    /\ [][(AutoFixEffect /\ CanAutoFix(rendered))
              => /\ cloningState' = FIXING
                 /\ fixCalls' = fixCalls + 1
                 /\ fixAttempts' = fixAttempts + 1
                 /\ \E t \in InFlight("fix")' : t.errors = consoleErrors]_vars

\* C38: a console error was received while the first fix call of the session
\* was in flight in state FIXING; the call is still in flight, a page job has
\* set the state to ERROR meanwhile, and the auto-fix effect is about to start
\* a second call and to empty the list.
C38_Witness ==
    /\ cloningState = ERROR
    /\ fixAttempts = 1 /\ fixCalls = 1
    /\ InFlight("fix") # {}
    /\ consoleErrors # <<>>
    /\ NextEffect("autoFix")
    /\ CanAutoFix(rendered)

=============================================================================
